---- MODULE Spec2Model ----
(***************************************************************************)
(* The file lifecycle and consistency engine of the file sharing platform: *)
(* FileService (upload, read, listing, update, delete, expiry sweep) over  *)
(* the metadata store (FileRepository), the blob store (FileStorage) and   *)
(* the lookaside cache (Cache / FileCache).                                *)
(*                                                                         *)
(* Every call a handler makes to one of the three stores is one atomic     *)
(* step; request handlers run concurrently (one per process of Procs) and  *)
(* the expiry sweep runs as one more process.                              *)
(***************************************************************************)
EXTENDS Integers, Sequences, FiniteSets, TLC

(* ------------------------------ bounds --------------------------------- *)
\* number of uploads (fresh identifiers drawn from uuid.New)
MaxFiles == 2
\* the wall clock runs from StartTime to MaxTime, in units of the cache TTL
MaxTime == 3
\* number of service calls the request handlers make in one behaviour
MaxOps == 3
\* number of store calls (blob store, metadata store, cache) that fail
MaxFaults == 2
\* the same two numbers for the other specifications
DeleteOps == 3
DeleteFaults == 1
ListOps == 3
ListFaults == 1
SweepOps == 2
SweepFaults == 1
\* the worker: number of Start and Stop calls, of ticker ticks, of failures
MaxCalls == 4
MaxTicks == 1
WorkerFaults == 1
\* the limiter: NewRateLimiter's maxRequests and windowSeconds (in clock
\* units), the number of requests and of cache failures
MaxRequests == 2
WindowSeconds == 1
LimitOps == 4
LimitFaults == 1
\* the clock ticks per second of time.Now().Unix(), the 24 hours an upload
\* lives, in ticks, and the last instant of the clock
TicksPerSecond == 2
UploadExpiry == 3
UploadHorizon == 5
\* the uploads, handler calls and failing calls of the upload-and-cleanup
\* specification
MaxUploads == 3
UploadOps == 3
UploadFaults == 1
\* search: numbers of requests and of failures
SearchOps == 2
SearchFaults == 1
\* local storage: clock units in a calendar day, numbers of calls and of
\* failures
ClockPerDay == 2
LocalOps == 3
LocalFaults == 1
\* the largest CACHE_TTL_MINUTES a deployment sets
MaxTTLMinutes == 60
\* stale listings: number of direct changes of the metadata store, of
\* listings and of failures
MaxDirect == 1
StaleOps == 3
StaleFaults == 1
\* every lifecycle operation together: number of calls and of failures
AllOps == 2
AllFaults == 1
\* share links: number of links, of service calls and of failures
MaxShares == 1
ShareOps == 3
ShareFaults == 1
\* number of map operations of the MemoryCache in one behaviour
MaxMapOps == 3

Procs == {"p1", "p2"}
Users == {1, 2}
\* the users that upload
Owners == {1}
FileIds == 1..MaxFiles

\* what a client uploads: header.Filename, header.Size, Content-Type
Payloads ==
  { [name |-> "a", size |-> 1, contentType |-> "text/plain"],
    [name |-> "b", size |-> 2, contentType |-> "image/png"] }

(* --------------------------- program constants ------------------------- *)
\* the zero value of time.Time (January 1, year 1): before every clock value
ZeroTime == 0
\* the first instant of the wall clock (later than ZeroTime + any duration)
StartTime == ZeroTime + 2
\* the zero value of a Go string field (File.StoragePath of a listing row)
EmptyPath == 0
\* File.ID before CreateFile has drawn one
EmptyID == 0
\* cfg.CacheTTL, the expiration FileCache gives every entry (one time unit)
CacheTTL == 1
\* the TTL of a cached search result (5*time.Minute), in clock units
SearchTTL == 1
\* the batch size main passes to NewFileCleanupWorker
BatchSize == 10
\* the default page size of GetUserFiles
DefaultLimit == 20

StorageKinds == {"local", "s3"}

(* ------------------------------ time ----------------------------------- *)
\* time.ParseDuration on the strings the callers send, in clock units
ParseDuration(s) ==
  CASE s = "-5m" -> [ok |-> TRUE, d |-> -1]
    [] s = "5m"  -> [ok |-> TRUE, d |-> 1]
    [] s = "0s"  -> [ok |-> TRUE, d |-> 0]
    [] OTHER     -> [ok |-> FALSE, d |-> 0]

(* --------------------------- models.File ------------------------------- *)
\* models.File as UploadFile builds it: ExpiresAt is left at its zero value
NewFile(userID, payload, storagePath) ==
  [ID |-> EmptyID, UserID |-> userID, Name |-> payload.name, Size |-> payload.size,
   ContentType |-> payload.contentType, StoragePath |-> storagePath,
   IsPublic |-> FALSE, ExpiresAt |-> ZeroTime]

(* ------------------------- encoding/json ------------------------------- *)
\* json.Marshal(models.File): storage_path carries omitempty, so an empty
\* path is left out; omitempty has no effect on the time.Time struct
JsonKeys(file) ==
  {"id", "user_id", "name", "size", "content_type", "is_public", "expires_at"}
    \cup (IF file.StoragePath = EmptyPath THEN {} ELSE {"storage_path"})

\* json.Marshal as it would be were Size tagged json:"-": the size is lost
MarshalFileNoSize(file) ==
  [k \in JsonKeys(file) |->
     CASE k = "id" -> file.ID
       [] k = "user_id" -> file.UserID
       [] k = "name" -> file.Name
       [] k = "size" -> 0
       [] k = "content_type" -> file.ContentType
       [] k = "storage_path" -> file.StoragePath
       [] k = "is_public" -> file.IsPublic
       [] k = "expires_at" -> file.ExpiresAt]

MarshalFile(file) ==
  [k \in JsonKeys(file) |->
     CASE k = "id" -> file.ID
       [] k = "user_id" -> file.UserID
       [] k = "name" -> file.Name
       [] k = "size" -> file.Size
       [] k = "content_type" -> file.ContentType
       [] k = "storage_path" -> file.StoragePath
       [] k = "is_public" -> file.IsPublic
       [] k = "expires_at" -> file.ExpiresAt]

\* json.Unmarshal into a zero models.File: an absent key leaves the zero value
UnmarshalFile(js) ==
  [ID |-> js["id"], UserID |-> js["user_id"], Name |-> js["name"],
   Size |-> js["size"], ContentType |-> js["content_type"],
   StoragePath |-> IF "storage_path" \in DOMAIN js THEN js["storage_path"]
                   ELSE EmptyPath,
   IsPublic |-> js["is_public"], ExpiresAt |-> js["expires_at"]]

MarshalFiles(files) == [i \in DOMAIN files |-> MarshalFile(files[i])]
UnmarshalFiles(js) == [i \in DOMAIN js |-> UnmarshalFile(js[i])]

(* --------------------------- pkg/cache ---------------------------------- *)
\* the keys FileCache builds with fmt.Sprintf
FileKey(fileID) == <<"file", fileID>>
UserFilesKey(userID) == <<"user_files", userID>>

\* Cache.Set: the entry replaces what the key held and expires ttl from now
CacheSet(c, key, value, ttl, t) ==
  [k \in DOMAIN c \cup {key} |->
     IF k = key THEN [value |-> value, expiration |-> t + ttl] ELSE c[k]]

\* Cache.Delete
CacheDelete(c, key) == [k \in DOMAIN c \ {key} |-> c[k]]

\* Cache.Get finds a value: the key is present and time.Now() is not after
\* its expiration
CacheHit(c, key, t) == key \in DOMAIN c /\ ~(t > c[key].expiration)

\* the cache after Cache.Get: an expired entry it met is gone (MemoryCache
\* deletes it in Get, Redis has dropped it)
CacheAfterGet(c, key, t) ==
  IF key \in DOMAIN c /\ t > c[key].expiration THEN CacheDelete(c, key) ELSE c

(* ------------------------- internal/db ---------------------------------- *)
\* the row CreateFile inserts: every column is bound to a Go value, so
\* expires_at receives file.ExpiresAt itself (never NULL)
RowOf(file) ==
  [user_id |-> file.UserID, name |-> file.Name, size |-> file.Size,
   content_type |-> file.ContentType, storage_path |-> file.StoragePath,
   is_public |-> file.IsPublic, expires_at |-> <<file.ExpiresAt>>]

\* sqlx scanning a row of GetFileByID / GetExpiredFiles into models.File
ScanFile(id, row) ==
  [ID |-> id, UserID |-> row.user_id, Name |-> row.name, Size |-> row.size,
   ContentType |-> row.content_type, StoragePath |-> row.storage_path,
   IsPublic |-> row.is_public, ExpiresAt |-> row.expires_at[1]]

\* the listing queries do not select storage_path: the field stays empty
ScanListed(id, row) == [ScanFile(id, row) EXCEPT !.StoragePath = EmptyPath]

\* a NULL expires_at cannot be scanned into a time.Time
Scannable(row) == row.expires_at # <<>>

\* INSERT INTO files
CreateFile(d, file) == [i \in DOMAIN d \cup {file.ID} |->
                          IF i = file.ID THEN RowOf(file) ELSE d[i]]

\* the rows UPDATE ... WHERE id = $5 AND user_id = $6 affects
UpdateMatches(d, file) ==
  file.ID \in DOMAIN d /\ d[file.ID].user_id = file.UserID

\* UPDATE files SET name, is_public, expires_at (updated_at is not modelled)
UpdateFileRow(d, file) ==
  [d EXCEPT ![file.ID].name = file.Name,
            ![file.ID].is_public = file.IsPublic,
            ![file.ID].expires_at = <<file.ExpiresAt>>]

\* the rows DELETE FROM files WHERE id = $1 AND user_id = $2 affects
DeleteMatches(d, id, userID) == id \in DOMAIN d /\ d[id].user_id = userID

DeleteRows(d, ids) == [i \in DOMAIN d \ ids |-> d[i]]

\* shared_files.file_id REFERENCES files(id) ON DELETE CASCADE: the links of
\* deleted files go with them; the share url of a removed link names no link
NoLink == [file_id |-> EmptyID, expires_at |-> ZeroTime, origin |-> ZeroTime]
CascadeShares(sh, ids) ==
  [i \in DOMAIN sh |-> IF sh[i].file_id \in ids THEN NoLink ELSE sh[i]]

\* ids in descending order: ORDER BY created_at DESC (rows are created one
\* at a time and ids are drawn in creation order)
RECURSIVE Descending(_)
Descending(ids) ==
  IF ids = {} THEN <<>>
  ELSE LET m == CHOOSE i \in ids : \A j \in ids : j <= i
       IN <<m>> \o Descending(ids \ {m})

RECURSIVE Ascending(_)
Ascending(ids) ==
  IF ids = {} THEN <<>>
  ELSE LET m == CHOOSE i \in ids : \A j \in ids : i <= j
       IN <<m>> \o Ascending(ids \ {m})

\* LIMIT lim OFFSET off over an ordered result
Page(seq, lim, off) ==
  LET first == off + 1
      last == IF off + lim < Len(seq) THEN off + lim ELSE Len(seq)
  IN IF first > last THEN <<>> ELSE SubSeq(seq, first, last)

\* SELECT ... WHERE user_id = $1 ORDER BY created_at DESC LIMIT $2 OFFSET $3
GetFilesByUserID(d, userID, lim, off) ==
  LET ids == Page(Descending({i \in DOMAIN d : d[i].user_id = userID}), lim, off)
  IN [k \in DOMAIN ids |-> ScanListed(ids[k], d[ids[k]])]

\* WHERE expires_at IS NOT NULL AND expires_at < NOW()
ExpiredIds(d, t) ==
  {i \in DOMAIN d : d[i].expires_at # <<>> /\ d[i].expires_at[1] < t}

\* the sets of rows a LIMIT n without ORDER BY may pick among the expired
LimitChoices(ids, n) ==
  IF Cardinality(ids) <= n THEN {ids}
  ELSE {s \in SUBSET ids : Cardinality(s) = n}

(* ------------------------- pkg/storage ---------------------------------- *)
\* the error FileStorage.Delete returns ("" is nil): os.Remove fails on a path
\* that does not exist, S3 DeleteObject answers success for an absent key;
\* io is whether the store itself works
StorageDeleteErr(kind, b, key, io) ==
  IF ~io THEN "storage"
  ELSE IF kind = "local" /\ key \notin b THEN "storage_not_exist"
  ELSE ""

StorageDeleteOk(kind, b, key, io) == StorageDeleteErr(kind, b, key, io) = ""

(* ------------------------------ state ---------------------------------- *)
VARIABLES
  now,          \* the wall clock (time.Now, NOW())
  storageKind,  \* which FileStorage main constructed: "local" or "s3"
  db,           \* table files: id -> row, for the rows that exist
  blobs,        \* the storage keys that name a stored blob
  cache,        \* the Cache: key -> [value, expiration]
  nextKey,      \* the next fresh storage key (uuid.New in Upload)
  nextId,       \* the next fresh file id (uuid.New in CreateFile)
  pc,           \* per request handler: where it stands in its service call
  call,         \* per request handler: the service call and its arguments
  loc,          \* per request handler: the local variable file / files
  res,          \* per request handler: what its last service call returned
  log,          \* per request handler: the store calls of its service call
  ops,          \* number of service calls the handlers may still start
  faults,       \* number of store calls that may still fail
  sw,           \* the sweep: CleanupExpiredFiles' position and locals
  hist,         \* what has happened so far (for stating the properties)
  shares,       \* table shared_files: share url -> row
  wk,           \* the FileCleanupWorker: its fields and its run goroutine
  rl,           \* per identity: the requests the RateLimiter has seen
  mc            \* the MemoryCache: the goroutines inside its map

vars == <<now, storageKind, db, blobs, cache, nextKey, nextId, pc, call, loc, res,
          log, ops, faults, sw, hist, shares, wk, rl, mc>>

\* the state of the share links, the worker, the limiter and the map accesses
ext == <<shares, wk, rl, mc>>

\* the <<limit, offset>> pairs GetUserFiles is called with
PageRequests == {<<0, 0>>, <<1, 0>>, <<0, 1>>}

\* the updates map of UpdateFile: a field is <<>> when the key is absent
NoUpdate == [name |-> <<>>, is_public |-> <<>>, expires_in |-> <<>>]
UpdateInputs ==
  { [NoUpdate EXCEPT !.name = <<"b">>],
    [NoUpdate EXCEPT !.expires_in = <<"-5m">>],
    [NoUpdate EXCEPT !.expires_in = <<"5m">>] }

NoCall == [op |-> "none", fileID |-> 0, userID |-> 0, limit |-> 0,
           offset |-> 0, arg |-> <<>>, seen |-> <<>>]
Ok(files) == [err |-> "", files |-> files, gone |-> {}]
Err(e) == [err |-> e, files |-> <<>>, gone |-> {}]

\* CleanupExpiredFiles: its position and locals (pc, files, i, count), what
\* its last tick returned (ret, err) and what that tick did
NoSweep == [pc |-> "idle", files |-> <<>>, i |-> 0, count |-> 0, ret |-> 0,
            err |-> "", ran |-> FALSE, quiet |-> FALSE, follows |-> FALSE,
            alone |-> TRUE, fault |-> FALSE, expired0 |-> {}, future0 |-> {},
            fetched |-> {}, blobFailed |-> {}, blobDeleted |-> {},
            rowsDeleted |-> {}]

NoHist == [deletedOK |-> {}, expirySet |-> {}, modified |-> {},
           uploaded |-> <<>>, renamed |-> <<>>, ghost |-> {}, keyOf |-> <<>>,
           insertFailed |-> {}, direct |-> 0,
           cachedAt |-> [u \in Users |-> 0]]

\* (stage, cacheTTL and interval are the configuration main gives the worker,
\* as 64-bit values; where the ticks are counted by MaxTicks they stay unset)
\* the FileCleanupWorker NewFileCleanupWorker returns: not running, stopChan
\* open, no run goroutine; calls and ticks are the numbers of Start/Stop calls
\* and of ticker ticks still to come
NoWorker == [isRunning |-> FALSE, stopClosed |-> FALSE, wg |-> 0,
             stopping |-> FALSE, run |-> "none", gen |-> 0, deadline |-> 0,
             panicked |-> FALSE, stoppedGen |-> 0, stoppedInTick |-> FALSE,
             waited |-> FALSE,
             lastCall |-> "none", calls |-> MaxCalls, ticks |-> MaxTicks,
             stage |-> "unset", cacheTTL |-> <<>>, interval |-> <<>>]

\* the limiter has seen no request
NoLimit ==
  [u \in Users |-> [t0 |-> ZeroTime, w |-> 0, k |-> 0, clean |-> TRUE, adm |-> 0]]

\* the goroutines that use a MemoryCache: the request handlers and the
\* cleanupLoop that NewMemoryCache starts
Goroutines == Procs \cup {"cleanup"}

\* a goroutine that is not accessing the map
Outside == [op |-> "none", key |-> <<>>, value |-> "", expiration |-> ZeroTime]

\* NewMemoryCache: an empty map that no goroutine is accessing
NoMem == [data |-> <<>>, acc |-> [g \in Goroutines |-> Outside],
          got |-> [g \in Goroutines |-> "none"],
          fatal |-> FALSE, lost |-> FALSE, ops |-> MaxMapOps]

\* the state after construction of what the lifecycle operations on files do
\* not touch
InitExt ==
  /\ shares = <<>>
  /\ wk = NoWorker
  /\ rl = NoLimit
  /\ mc = NoMem

\* the state after construction: empty stores, every handler idle, and the
\* numbers of calls and of failures the behaviour may hold
InitWith(nOps, nFaults) ==
  /\ InitExt
  /\ now = StartTime
  /\ storageKind \in StorageKinds
  /\ db = <<>>
  /\ blobs = {}
  /\ cache = <<>>
  /\ nextKey = 1
  /\ nextId = 1
  /\ pc = [p \in Procs |-> "idle"]
  /\ call = [p \in Procs |-> NoCall]
  /\ loc = [p \in Procs |-> <<>>]
  /\ res = [p \in Procs |-> Ok(<<>>)]
  /\ log = [p \in Procs |-> {}]
  /\ ops = nOps
  /\ faults = nFaults
  /\ sw = NoSweep
  /\ hist = NoHist

\* the file a user uploaded in an earlier run of the process: its row and
\* its blob are stored, the cache holds nothing
StoredPayload == [name |-> "a", size |-> 1, contentType |-> "text/plain"]
StoredFile == [NewFile(1, StoredPayload, 1) EXCEPT !.ID = 1]

\* the state after construction over stores that hold StoredFile
InitStoredWith(nOps, nFaults) ==
  /\ InitExt
  /\ now = StartTime
  /\ storageKind \in StorageKinds
  /\ db = CreateFile(<<>>, StoredFile)
  /\ blobs = {StoredFile.StoragePath}
  /\ cache = <<>>
  /\ nextKey = 2
  /\ nextId = 2
  /\ pc = [p \in Procs |-> "idle"]
  /\ call = [p \in Procs |-> NoCall]
  /\ loc = [p \in Procs |-> <<>>]
  /\ res = [p \in Procs |-> Ok(<<>>)]
  /\ log = [p \in Procs |-> {}]
  /\ ops = nOps
  /\ faults = nFaults
  /\ sw = NoSweep
  /\ hist = [NoHist EXCEPT !.uploaded = <<StoredPayload>>,
                           !.keyOf = <<StoredFile.StoragePath>>]

Init == InitWith(MaxOps, MaxFaults)

(* --------------------------- bookkeeping -------------------------------- *)
\* a handler returns r to its caller
Return(p, r) ==
  /\ pc' = [pc EXCEPT ![p] = "idle"]
  /\ res' = [res EXCEPT ![p] = r]
  /\ loc' = [loc EXCEPT ![p] = <<>>]

\* a handler moves on to its next store call with local variable l
Goto(p, label, l) ==
  /\ pc' = [pc EXCEPT ![p] = label]
  /\ loc' = [loc EXCEPT ![p] = l]
  /\ UNCHANGED res

\* a handler is called: the call is the first thing its process does
Called(p, c) ==
  /\ pc[p] = "idle"
  /\ ops > 0
  /\ ops' = ops - 1
  /\ call' = [call EXCEPT ![p] = c]

\* a store call answers: ok is whether it succeeds, and it may fail only
\* while failures are left
Answers(ok) ==
  /\ ok \in BOOLEAN
  /\ ~ok => faults > 0
  /\ faults' = IF ok THEN faults ELSE faults - 1

\* the file ids a caller names: the ids drawn so far and one that names no
\* file yet
TargetIds == {f \in FileIds : f <= nextId}

Logged(p, name, ok) == log' = [log EXCEPT ![p] = @ \cup {<<name, ok>>}]
LoggedFirst(p, name, ok) == log' = [log EXCEPT ![p] = {<<name, ok>>}]

\* what a reader that starts now can know to have happened
Seen == [deletedOK |-> hist.deletedOK, renamed |-> hist.renamed,
         uploaded |-> DOMAIN hist.uploaded, direct |-> hist.direct]

\* the records among files whose blob is not in the blob store as they are
\* read from the cache or the metadata store, the ghost rows (metadata delete
\* failed) left aside
Gone(files) ==
  {id \in {files[i].ID : i \in DOMAIN files} :
     hist.keyOf[id] \notin blobs /\ id \notin hist.ghost}

OkRead(files) == [err |-> "", files |-> files, gone |-> Gone(files)]
OkFetched(files, gone) == [err |-> "", files |-> files, gone |-> gone]

\* the sweep's record once a handler has changed the metadata or the clock
\* has moved: the next tick does not follow the last one immediately, and a
\* tick in progress has not run alone
Disturbed ==
  [sw EXCEPT !.quiet = FALSE, !.alone = IF sw.pc = "idle" THEN @ ELSE FALSE]

(* ----------------------- FileService.UploadFile ------------------------- *)
\* Upload as it would be if the key were taken from what the caller sends
UploadFile_UploadNamedByCaller(p) ==
  /\ nextKey <= MaxFiles
  /\ \E u \in Owners, pl \in Payloads, io \in BOOLEAN :
       /\ Called(p, [NoCall EXCEPT !.op = "UploadFile", !.userID = u, !.arg = pl])
       /\ LoggedFirst(p, "storage.Upload", io)
       /\ Answers(io)
       /\ IF io
          THEN /\ blobs' = blobs \cup {pl.size}
               /\ nextKey' = nextKey + 1
               /\ Goto(p, "up_create", <<NewFile(u, pl, pl.size)>>)
          ELSE /\ Return(p, Err("upload"))
               /\ UNCHANGED <<blobs, nextKey>>
  /\ UNCHANGED ext
  /\ UNCHANGED <<now, storageKind, db, cache, nextId, sw, hist>>

\* s.storage.Upload: the key is generated by the storage (a date and
\* uuid.New(), which is taken never to repeat), never by the caller
UploadFile_Upload(p) ==
  /\ nextKey <= MaxFiles
  /\ \E u \in Owners, pl \in Payloads, io \in BOOLEAN :
       /\ Called(p, [NoCall EXCEPT !.op = "UploadFile", !.userID = u, !.arg = pl])
       /\ LoggedFirst(p, "storage.Upload", io)
       /\ Answers(io)
       /\ IF io
          THEN /\ blobs' = blobs \cup {nextKey}
               /\ nextKey' = nextKey + 1
               /\ Goto(p, "up_create", <<NewFile(u, pl, nextKey)>>)
          ELSE /\ Return(p, Err("upload"))
               /\ UNCHANGED <<blobs, nextKey>>
  /\ UNCHANGED ext
  /\ UNCHANGED <<now, storageKind, db, cache, nextId, sw, hist>>

\* s.fileRepo.CreateFile: draws the id and inserts the row
UploadFile_Create(p) ==
  /\ pc[p] = "up_create"
  /\ \E ok \in BOOLEAN :
       /\ Logged(p, "repo.CreateFile", ok)
       /\ Answers(ok)
       /\ IF ok
          THEN LET file == [loc[p][1] EXCEPT !.ID = nextId] IN
               /\ db' = CreateFile(db, file)
               /\ nextId' = nextId + 1
               /\ hist' = [hist EXCEPT
                    !.keyOf = [i \in DOMAIN @ \cup {file.ID} |->
                                 IF i = file.ID THEN file.StoragePath ELSE @[i]]]
               /\ sw' = Disturbed
               /\ Goto(p, "up_inval", <<file>>)
          ELSE /\ Goto(p, "up_comp", loc[p])
               /\ hist' = [hist EXCEPT
                    !.insertFailed = @ \cup {loc[p][1].StoragePath}]
               /\ UNCHANGED <<db, nextId, sw>>
  /\ UNCHANGED ext
  /\ UNCHANGED <<now, storageKind, blobs, cache, nextKey, call, ops>>

\* the compensation as it would be were its own error returned in place of
\* the insert error
UploadFile_CompensateEscalates(p) ==
  /\ pc[p] = "up_comp"
  /\ \E io \in BOOLEAN :
       LET key == loc[p][1].StoragePath
           ok == StorageDeleteOk(storageKind, blobs, key, io) IN
       /\ Logged(p, "storage.Delete", ok)
       /\ Answers(io)
       /\ blobs' = IF ok THEN blobs \ {key} ELSE blobs
       /\ Return(p, Err(IF ok THEN "insert"
                        ELSE StorageDeleteErr(storageKind, blobs, key, io)))
  /\ UNCHANGED ext
  /\ UNCHANGED <<now, storageKind, db, cache, nextKey, nextId, call, ops, sw, hist>>

\* the insert failed: _ = s.storage.Delete(storagePath), then the insert error
UploadFile_Compensate(p) ==
  /\ pc[p] = "up_comp"
  /\ \E io \in BOOLEAN :
       LET key == loc[p][1].StoragePath
           ok == StorageDeleteOk(storageKind, blobs, key, io) IN
       /\ Logged(p, "storage.Delete", ok)
       /\ Answers(io)
       /\ blobs' = IF ok THEN blobs \ {key} ELSE blobs
       /\ Return(p, Err("insert"))
  /\ UNCHANGED ext
  /\ UNCHANGED <<now, storageKind, db, cache, nextKey, nextId, call, ops, sw, hist>>

\* _ = s.cache.InvalidateUserFiles(ctx, userID)
UploadFile_Invalidate(p) ==
  /\ pc[p] = "up_inval"
  /\ \E ok \in BOOLEAN :
       /\ Logged(p, "cache.InvalidateUserFiles", ok)
       /\ Answers(ok)
       /\ cache' = IF ok THEN CacheDelete(cache, UserFilesKey(call[p].userID))
                   ELSE cache
  /\ Goto(p, "up_set", loc[p])
  /\ UNCHANGED ext
  /\ UNCHANGED <<now, storageKind, db, blobs, nextKey, nextId, call, ops, sw, hist>>

\* _ = s.cache.SetFile(ctx, file); return file, nil
UploadFile_SetFile(p) ==
  /\ pc[p] = "up_set"
  /\ LET file == loc[p][1] IN
       /\ \E ok \in BOOLEAN :
            /\ Logged(p, "cache.SetFile", ok)
            /\ Answers(ok)
            /\ cache' = IF ok
                        THEN CacheSet(cache, FileKey(file.ID), MarshalFile(file),
                                      CacheTTL, now)
                        ELSE cache
       /\ hist' = [hist EXCEPT
            !.uploaded = [i \in DOMAIN @ \cup {file.ID} |->
                            IF i = file.ID THEN call[p].arg ELSE @[i]]]
       /\ Return(p, Ok(<<file>>))
  /\ UNCHANGED ext
  /\ UNCHANGED <<now, storageKind, db, blobs, nextKey, nextId, call, ops, sw>>

(* ------------------------- FileService.GetFile -------------------------- *)
\* s.cache.GetFile: a cache error and an expired entry are misses
GetFile_Cache(p) ==
  /\ \E f \in TargetIds, ok \in BOOLEAN :
       LET key == FileKey(f) IN
       /\ Called(p, [NoCall EXCEPT !.op = "GetFile", !.fileID = f, !.seen = Seen])
       /\ LoggedFirst(p, "cache.GetFile", ok)
       /\ Answers(ok)
       /\ IF ok /\ CacheHit(cache, key, now)
          THEN /\ Return(p, OkRead(<<UnmarshalFile(cache[key].value)>>))
               /\ UNCHANGED cache
          ELSE /\ cache' = IF ok THEN CacheAfterGet(cache, key, now) ELSE cache
               /\ Goto(p, "gf_db", <<>>)
  /\ UNCHANGED ext
  /\ UNCHANGED <<now, storageKind, db, blobs, nextKey, nextId, sw, hist>>

\* s.fileRepo.GetFileByID
GetFile_DB(p) ==
  /\ pc[p] = "gf_db"
  /\ LET f == call[p].fileID IN
     \E ok \in BOOLEAN :
       /\ Logged(p, "repo.GetFileByID", ok)
       /\ Answers(ok)
       /\ IF ok /\ f \in DOMAIN db /\ Scannable(db[f])
          THEN Goto(p, "gf_set", <<ScanFile(f, db[f]), Gone(<<ScanFile(f, db[f])>>)>>)
          ELSE Return(p, Err(IF ok THEN "not_found" ELSE "db"))
  /\ UNCHANGED ext
  /\ UNCHANGED <<now, storageKind, db, blobs, cache, nextKey, nextId, call, ops, sw, hist>>

\* GetFile as it would be if it returned the error of cache.SetFile
GetFile_SetFileSurfaces(p) ==
  /\ pc[p] = "gf_set"
  /\ LET file == loc[p][1] IN
     \E ok \in BOOLEAN :
       /\ Logged(p, "cache.SetFile", ok)
       /\ Answers(ok)
       /\ cache' = IF ok
                   THEN CacheSet(cache, FileKey(file.ID), MarshalFile(file),
                                 CacheTTL, now)
                   ELSE cache
       /\ Return(p, IF ok THEN OkFetched(<<file>>, loc[p][2]) ELSE Err("cache"))
  /\ UNCHANGED ext
  /\ UNCHANGED <<now, storageKind, db, blobs, nextKey, nextId, call, ops, sw, hist>>

\* _ = s.cache.SetFile(ctx, file); return file, nil
GetFile_SetFile(p) ==
  /\ pc[p] = "gf_set"
  /\ LET file == loc[p][1] IN
     \E ok \in BOOLEAN :
       /\ Logged(p, "cache.SetFile", ok)
       /\ Answers(ok)
       /\ cache' = IF ok
                   THEN CacheSet(cache, FileKey(file.ID), MarshalFile(file),
                                 CacheTTL, now)
                   ELSE cache
       /\ Return(p, OkFetched(<<file>>, loc[p][2]))
  /\ UNCHANGED ext
  /\ UNCHANGED <<now, storageKind, db, blobs, nextKey, nextId, call, ops, sw, hist>>

(* ----------------------- FileService.GetUserFiles ----------------------- *)
\* limit 0 means the default page size
EffectiveLimit(limit) == IF limit = 0 THEN DefaultLimit ELSE limit

\* GetUserFiles as it would be over a cache that reads through to the
\* metadata store on a hit
GetUserFiles_CacheReadsThrough(p) ==
  /\ \E u \in Users, page \in PageRequests, ok \in BOOLEAN :
       LET key == UserFilesKey(u)
           limit == page[1]
           offset == page[2] IN
       /\ Called(p, [NoCall EXCEPT !.op = "GetUserFiles", !.userID = u,
                       !.limit = EffectiveLimit(limit), !.offset = offset,
                       !.seen = Seen])
       /\ IF offset = 0
          THEN /\ LoggedFirst(p, "cache.GetUserFiles", ok)
               /\ Answers(ok)
               /\ IF ok /\ CacheHit(cache, key, now)
                  THEN /\ Return(p, OkRead(GetFilesByUserID(
                                      db, u, EffectiveLimit(limit), 0)))
                       /\ UNCHANGED cache
                  ELSE /\ cache' = IF ok THEN CacheAfterGet(cache, key, now)
                                   ELSE cache
                       /\ Goto(p, "gu_db", <<>>)
          ELSE /\ ok
               /\ UNCHANGED faults
               /\ log' = [log EXCEPT ![p] = {}]
               /\ Goto(p, "gu_db", <<>>)
               /\ UNCHANGED cache
  /\ UNCHANGED ext
  /\ UNCHANGED <<now, storageKind, db, blobs, nextKey, nextId, sw, hist>>

\* the first page is looked up in the cache; other offsets go to the database
GetUserFiles_Cache(p) ==
  /\ \E u \in Users, page \in PageRequests, ok \in BOOLEAN :
       LET key == UserFilesKey(u)
           limit == page[1]
           offset == page[2] IN
       /\ Called(p, [NoCall EXCEPT !.op = "GetUserFiles", !.userID = u,
                       !.limit = EffectiveLimit(limit), !.offset = offset,
                       !.seen = Seen])
       /\ IF offset = 0
          THEN /\ LoggedFirst(p, "cache.GetUserFiles", ok)
               /\ Answers(ok)
               /\ IF ok /\ CacheHit(cache, key, now)
                  THEN /\ Return(p, OkRead(UnmarshalFiles(cache[key].value)))
                       /\ UNCHANGED cache
                  ELSE /\ cache' = IF ok THEN CacheAfterGet(cache, key, now)
                                   ELSE cache
                       /\ Goto(p, "gu_db", <<>>)
          ELSE /\ ok
               /\ UNCHANGED faults
               /\ log' = [log EXCEPT ![p] = {}]
               /\ Goto(p, "gu_db", <<>>)
               /\ UNCHANGED cache
  /\ UNCHANGED ext
  /\ UNCHANGED <<now, storageKind, db, blobs, nextKey, nextId, sw, hist>>

\* s.fileRepo.GetFilesByUserID(userID, limit, offset)
GetUserFiles_DB(p) ==
  /\ pc[p] = "gu_db"
  /\ \E ok \in BOOLEAN :
       /\ Logged(p, "repo.GetFilesByUserID", ok)
       /\ Answers(ok)
       /\ IF ok
          THEN LET files == GetFilesByUserID(db, call[p].userID, call[p].limit,
                                             call[p].offset) IN
               IF call[p].offset = 0
               THEN Goto(p, "gu_set", <<files, Gone(files)>>)
               ELSE Return(p, OkRead(files))
          ELSE Return(p, Err("db"))
  /\ UNCHANGED ext
  /\ UNCHANGED <<now, storageKind, db, blobs, cache, nextKey, nextId, call, ops, sw, hist>>

\* _ = s.cache.SetUserFiles(ctx, userID, files); return files, nil
GetUserFiles_Set(p) ==
  /\ pc[p] = "gu_set"
  /\ \E ok \in BOOLEAN :
       /\ Logged(p, "cache.SetUserFiles", ok)
       /\ Answers(ok)
       /\ cache' = IF ok
                   THEN CacheSet(cache, UserFilesKey(call[p].userID),
                                 MarshalFiles(loc[p][1]), CacheTTL, now)
                   ELSE cache
       /\ hist' = IF ok
                  THEN [hist EXCEPT !.cachedAt[call[p].userID] = hist.direct]
                  ELSE hist
  /\ Return(p, OkFetched(loc[p][1], loc[p][2]))
  /\ UNCHANGED ext
  /\ UNCHANGED <<now, storageKind, db, blobs, nextKey, nextId, call, ops, sw>>

\* the names a writer that bypasses the service gives, one per change
DirectNames == <<"d1", "d2", "d3">>

\* a second writer renames a row in the metadata store itself, while no
\* request is being handled; the cache is not told
DirectRename ==
  /\ hist.direct < MaxDirect
  /\ \A p \in Procs : pc[p] = "idle"
  /\ \E f \in DOMAIN db :
       db' = [db EXCEPT ![f].name = DirectNames[hist.direct + 1]]
  /\ hist' = [hist EXCEPT !.direct = @ + 1]
  /\ sw' = Disturbed
  /\ UNCHANGED ext
  /\ UNCHANGED <<now, storageKind, blobs, cache, nextKey, nextId, pc, call, loc,
                 res, log, ops, faults>>

\* FileCache.InvalidateUserFiles called for u
InvalidateUserFiles(u) ==
  /\ \E ok \in BOOLEAN :
       /\ Answers(ok)
       /\ cache' = IF ok THEN CacheDelete(cache, UserFilesKey(u)) ELSE cache
  /\ UNCHANGED ext
  /\ UNCHANGED <<now, storageKind, db, blobs, nextKey, nextId, pc, call, loc,
                 res, log, ops, sw, hist>>

(* ----------------------- FileService.UpdateFile ------------------------- *)
\* the fields of the updates map that are present and of the right type are
\* applied; an expires_in that does not parse is ignored
ApplyUpdates(file, upd, t) ==
  LET f1 == IF upd.name # <<>> THEN [file EXCEPT !.Name = upd.name[1]] ELSE file
      f2 == IF upd.is_public # <<>> THEN [f1 EXCEPT !.IsPublic = upd.is_public[1]]
            ELSE f1
      dur == IF upd.expires_in # <<>> THEN ParseDuration(upd.expires_in[1])
             ELSE [ok |-> FALSE, d |-> 0]
  IN IF dur.ok THEN [f2 EXCEPT !.ExpiresAt = t + dur.d] ELSE f2

SetsExpiry(upd) == upd.expires_in # <<>> /\ ParseDuration(upd.expires_in[1]).ok

\* UpdateFile as it would be without the ownership check
UpdateFile_GetAnyone(p) ==
  /\ \E f \in TargetIds, u \in Users, upd \in UpdateInputs, ok \in BOOLEAN :
       /\ Called(p, [NoCall EXCEPT !.op = "UpdateFile", !.fileID = f,
                       !.userID = u, !.arg = upd])
       /\ LoggedFirst(p, "repo.GetFileByID", ok)
       /\ Answers(ok)
       /\ IF ok /\ f \in DOMAIN db /\ Scannable(db[f])
          THEN LET file == ScanFile(f, db[f]) IN
               Goto(p, "uf_db", <<ApplyUpdates(file, upd, now), file>>)
          ELSE Return(p, Err(IF ok THEN "not_found" ELSE "db"))
  /\ UNCHANGED ext
  /\ UNCHANGED <<now, storageKind, db, blobs, cache, nextKey, nextId, sw, hist>>

\* s.fileRepo.GetFileByID, the ownership check and the updates
UpdateFile_Get(p) ==
  /\ \E f \in TargetIds, u \in Users, upd \in UpdateInputs, ok \in BOOLEAN :
       /\ Called(p, [NoCall EXCEPT !.op = "UpdateFile", !.fileID = f,
                       !.userID = u, !.arg = upd])
       /\ LoggedFirst(p, "repo.GetFileByID", ok)
       /\ Answers(ok)
       /\ IF ok /\ f \in DOMAIN db /\ Scannable(db[f])
          THEN LET file == ScanFile(f, db[f]) IN
               IF file.UserID # u
               THEN Return(p, Err("forbidden"))
               ELSE Goto(p, "uf_db", <<ApplyUpdates(file, upd, now), file>>)
          ELSE Return(p, Err(IF ok THEN "not_found" ELSE "db"))
  /\ UNCHANGED ext
  /\ UNCHANGED <<now, storageKind, db, blobs, cache, nextKey, nextId, sw, hist>>

\* s.fileRepo.UpdateFile: no row affected is an error
UpdateFile_DB(p) ==
  /\ pc[p] = "uf_db"
  /\ LET file == loc[p][1] IN
     \E ok \in BOOLEAN :
       /\ Logged(p, "repo.UpdateFile", ok)
       /\ Answers(ok)
       /\ IF ok /\ UpdateMatches(db, file)
          THEN /\ db' = UpdateFileRow(db, file)
               /\ hist' = [hist EXCEPT
                    !.modified = @ \cup {file.ID},
                    !.expirySet = IF SetsExpiry(call[p].arg)
                                  THEN @ \cup {file.ID} ELSE @,
                    !.renamed = [i \in DOMAIN @ \ {file.ID} |-> @[i]]]
               /\ sw' = Disturbed
               /\ Goto(p, "uf_inv1", loc[p])
          ELSE /\ Return(p, Err(IF ok THEN "not_found" ELSE "db"))
               /\ UNCHANGED <<db, hist, sw>>
  /\ UNCHANGED ext
  /\ UNCHANGED <<now, storageKind, blobs, cache, nextKey, nextId, call, ops>>

\* _ = s.cache.InvalidateFile(ctx, fileID)
UpdateFile_InvFile(p) ==
  /\ pc[p] = "uf_inv1"
  /\ \E ok \in BOOLEAN :
       /\ Logged(p, "cache.InvalidateFile", ok)
       /\ Answers(ok)
       /\ cache' = IF ok THEN CacheDelete(cache, FileKey(call[p].fileID)) ELSE cache
  /\ Goto(p, "uf_inv2", loc[p])
  /\ UNCHANGED ext
  /\ UNCHANGED <<now, storageKind, db, blobs, nextKey, nextId, call, ops, sw, hist>>

\* _ = s.cache.InvalidateUserFiles(ctx, userID); return file, nil
UpdateFile_InvUser(p) ==
  /\ pc[p] = "uf_inv2"
  /\ LET file == loc[p][1]
         before == loc[p][2] IN
     \E ok \in BOOLEAN :
       /\ Logged(p, "cache.InvalidateUserFiles", ok)
       /\ Answers(ok)
       /\ cache' = IF ok THEN CacheDelete(cache, UserFilesKey(call[p].userID))
                   ELSE cache
       /\ hist' = IF /\ ok
                     /\ <<"cache.InvalidateFile", FALSE>> \notin log[p]
                     /\ file.Name # before.Name
                     /\ file.ID \in DOMAIN db /\ db[file.ID].name = file.Name
                  THEN [hist EXCEPT
                         !.renamed = [i \in DOMAIN @ \cup {file.ID} |->
                                        IF i = file.ID
                                        THEN <<before.Name, file.Name>>
                                        ELSE @[i]]]
                  ELSE hist
       /\ Return(p, Ok(<<file>>))
  /\ UNCHANGED ext
  /\ UNCHANGED <<now, storageKind, db, blobs, nextKey, nextId, call, ops, sw>>

(* ----------------------- FileService.DeleteFile ------------------------- *)
\* DeleteFile as it would be if deleting what is not there were a success
DeleteFile_GetIdempotent(p) ==
  /\ \E f \in TargetIds, u \in Users, ok \in BOOLEAN :
       /\ Called(p, [NoCall EXCEPT !.op = "DeleteFile", !.fileID = f, !.userID = u,
                                    !.arg = <<f \in DOMAIN db>>])
       /\ LoggedFirst(p, "repo.GetFileByID", ok)
       /\ Answers(ok)
       /\ IF ok /\ f \in DOMAIN db /\ Scannable(db[f])
          THEN LET file == ScanFile(f, db[f]) IN
               IF file.UserID # u
               THEN Return(p, Err("forbidden"))
               ELSE Goto(p, "df_store", <<file>>)
          ELSE Return(p, IF ok THEN Ok(<<>>) ELSE Err("db"))
  /\ UNCHANGED ext
  /\ UNCHANGED <<now, storageKind, db, blobs, cache, nextKey, nextId, sw, hist>>

\* s.fileRepo.GetFileByID and the ownership check (arg notes whether the row
\* is there when it is read)
DeleteFile_Get(p) ==
  /\ \E f \in TargetIds, u \in Users, ok \in BOOLEAN :
       /\ Called(p, [NoCall EXCEPT !.op = "DeleteFile", !.fileID = f, !.userID = u,
                                    !.arg = <<f \in DOMAIN db>>])
       /\ LoggedFirst(p, "repo.GetFileByID", ok)
       /\ Answers(ok)
       /\ IF ok /\ f \in DOMAIN db /\ Scannable(db[f])
          THEN LET file == ScanFile(f, db[f]) IN
               IF file.UserID # u
               THEN Return(p, Err("forbidden"))
               ELSE Goto(p, "df_store", <<file>>)
          ELSE Return(p, Err(IF ok THEN "not_found" ELSE "db"))
  /\ UNCHANGED ext
  /\ UNCHANGED <<now, storageKind, db, blobs, cache, nextKey, nextId, sw, hist>>

\* the blob delete as it would be were its error ignored: DeleteFile goes on
\* to the metadata store
DeleteFile_StorageIgnored(p) ==
  /\ pc[p] = "df_store"
  /\ \E io \in BOOLEAN :
       LET key == loc[p][1].StoragePath
           ok == StorageDeleteOk(storageKind, blobs, key, io) IN
       /\ Logged(p, "storage.Delete", ok)
       /\ Answers(io)
       /\ blobs' = IF ok THEN blobs \ {key} ELSE blobs
       /\ sw' = Disturbed
       /\ Goto(p, "df_db", loc[p])
  /\ UNCHANGED ext
  /\ UNCHANGED <<now, storageKind, db, cache, nextKey, nextId, call, ops, hist>>

\* s.storage.Delete(file.StoragePath): on an error DeleteFile returns it
DeleteFile_Storage(p) ==
  /\ pc[p] = "df_store"
  /\ \E io \in BOOLEAN :
       LET key == loc[p][1].StoragePath
           ok == StorageDeleteOk(storageKind, blobs, key, io) IN
       /\ Logged(p, "storage.Delete", ok)
       /\ Answers(io)
       /\ IF ok
          THEN /\ blobs' = blobs \ {key}
               /\ sw' = Disturbed
               /\ Goto(p, "df_db", loc[p])
          ELSE /\ Return(p, Err(StorageDeleteErr(storageKind, blobs, key, io)))
               /\ UNCHANGED <<blobs, sw>>
  /\ UNCHANGED ext
  /\ UNCHANGED <<now, storageKind, db, cache, nextKey, nextId, call, ops, hist>>

\* the metadata delete as it would be if no row affected were a success
DeleteFile_DBAnyCount(p) ==
  /\ pc[p] = "df_db"
  /\ LET f == call[p].fileID IN
     \E ok \in BOOLEAN :
       /\ Logged(p, "repo.DeleteFile", ok)
       /\ Answers(ok)
       /\ IF ok
          THEN /\ db' = DeleteRows(db, {f})
               /\ shares' = CascadeShares(shares, {f})
               /\ hist' = [hist EXCEPT !.modified = @ \cup {f}]
               /\ sw' = Disturbed
               /\ Goto(p, "df_inv1", loc[p])
          ELSE /\ hist' = IF ok THEN hist
                          ELSE [hist EXCEPT !.ghost = @ \cup {f}]
               /\ Return(p, Err(IF ok THEN "not_found" ELSE "db"))
               /\ UNCHANGED <<db, sw, shares>>
  /\ UNCHANGED <<wk, rl, mc>>
  /\ UNCHANGED <<now, storageKind, blobs, cache, nextKey, nextId, call, ops>>

\* s.fileRepo.DeleteFile(fileID, userID): no row affected is an error
DeleteFile_DB(p) ==
  /\ pc[p] = "df_db"
  /\ LET f == call[p].fileID IN
     \E ok \in BOOLEAN :
       /\ Logged(p, "repo.DeleteFile", ok)
       /\ Answers(ok)
       /\ IF ok /\ DeleteMatches(db, f, call[p].userID)
          THEN /\ db' = DeleteRows(db, {f})
               /\ shares' = CascadeShares(shares, {f})
               /\ hist' = [hist EXCEPT !.modified = @ \cup {f}]
               /\ sw' = Disturbed
               /\ Goto(p, "df_inv1", loc[p])
          ELSE /\ hist' = IF ok THEN hist
                          ELSE [hist EXCEPT !.ghost = @ \cup {f}]
               /\ Return(p, Err(IF ok THEN "not_found" ELSE "db"))
               /\ UNCHANGED <<db, sw, shares>>
  /\ UNCHANGED <<wk, rl, mc>>
  /\ UNCHANGED <<now, storageKind, blobs, cache, nextKey, nextId, call, ops>>

\* _ = s.cache.InvalidateFile(ctx, fileID)
DeleteFile_InvFile(p) ==
  /\ pc[p] = "df_inv1"
  /\ \E ok \in BOOLEAN :
       /\ Logged(p, "cache.InvalidateFile", ok)
       /\ Answers(ok)
       /\ cache' = IF ok THEN CacheDelete(cache, FileKey(call[p].fileID)) ELSE cache
  /\ Goto(p, "df_inv2", loc[p])
  /\ UNCHANGED ext
  /\ UNCHANGED <<now, storageKind, db, blobs, nextKey, nextId, call, ops, sw, hist>>

\* _ = s.cache.InvalidateUserFiles(ctx, userID); return nil
DeleteFile_InvUser(p) ==
  /\ pc[p] = "df_inv2"
  /\ \E ok \in BOOLEAN :
       /\ Logged(p, "cache.InvalidateUserFiles", ok)
       /\ Answers(ok)
       /\ cache' = IF ok THEN CacheDelete(cache, UserFilesKey(call[p].userID))
                   ELSE cache
  /\ hist' = [hist EXCEPT !.deletedOK = @ \cup {call[p].fileID}]
  /\ Return(p, Ok(<<>>))
  /\ UNCHANGED ext
  /\ UNCHANGED <<now, storageKind, db, blobs, nextKey, nextId, call, ops, sw>>

(* -------------------- FileService.CleanupExpiredFiles ------------------- *)
\* the loop moves on to the next fetched file, or to the database delete
NextFile(s) ==
  IF s.i < Len(s.files) THEN [s EXCEPT !.i = @ + 1, !.pc = "sw_store"]
  ELSE [s EXCEPT !.i = @ + 1, !.pc = "sw_db"]

\* s.fileRepo.GetExpiredFiles(batchSize): the query states no order, so the
\* rows come in either order; with nothing fetched the tick returns 0 at once
Cleanup_GetExpired ==
  /\ sw.pc = "idle"
  /\ \E ok \in BOOLEAN, pick \in LimitChoices(ExpiredIds(db, now), BatchSize) :
     \E ids \in {Ascending(pick), Descending(pick)} :
       LET files == [k \in DOMAIN ids |-> ScanFile(ids[k], db[ids[k]])]
           begun == [NoSweep EXCEPT
                       !.ran = TRUE, !.follows = sw.quiet,
                       !.alone = \A p \in Procs : pc[p] = "idle",
                       !.expired0 = {i \in DOMAIN db :
                                       /\ i \in hist.expirySet
                                       /\ db[i].expires_at[1] < now},
                       !.future0 = {i \in DOMAIN db : db[i].expires_at[1] > now}]
       IN /\ Answers(ok)
          /\ sw' = IF ~ok
                   THEN [begun EXCEPT !.err = "db", !.fault = TRUE]
                   ELSE IF Len(files) = 0
                   THEN [begun EXCEPT !.quiet = TRUE]
                   ELSE [begun EXCEPT !.pc = "sw_store", !.files = files,
                                      !.i = 1, !.fetched = pick]
  /\ UNCHANGED ext
  /\ UNCHANGED <<now, storageKind, db, blobs, cache, nextKey, nextId, pc, call,
                 loc, res, log, ops, hist>>

\* s.storage.Delete(file.StoragePath): on an error the loop continues with
\* the next file
Cleanup_Storage ==
  /\ sw.pc = "sw_store"
  /\ \E io \in BOOLEAN :
       LET file == sw.files[sw.i]
           ok == StorageDeleteOk(storageKind, blobs, file.StoragePath, io) IN
       /\ Answers(io)
       /\ IF ok
          THEN /\ blobs' = blobs \ {file.StoragePath}
               /\ sw' = [sw EXCEPT !.pc = "sw_inv1",
                                   !.blobDeleted = @ \cup {file.ID}]
          ELSE /\ sw' = NextFile([sw EXCEPT !.blobFailed = @ \cup {file.ID},
                                            !.fault = TRUE])
               /\ UNCHANGED blobs
  /\ UNCHANGED ext
  /\ UNCHANGED <<now, storageKind, db, cache, nextKey, nextId, pc, call, loc,
                 res, log, ops, hist>>

\* _ = s.cache.InvalidateFile(ctx, file.ID)
Cleanup_InvFile ==
  /\ sw.pc = "sw_inv1"
  /\ \E ok \in BOOLEAN :
       /\ Answers(ok)
       /\ cache' = IF ok THEN CacheDelete(cache, FileKey(sw.files[sw.i].ID))
                   ELSE cache
       /\ sw' = [sw EXCEPT !.pc = "sw_inv2", !.fault = @ \/ ~ok]
  /\ UNCHANGED ext
  /\ UNCHANGED <<now, storageKind, db, blobs, nextKey, nextId, pc, call, loc,
                 res, log, ops, hist>>

\* _ = s.cache.InvalidateUserFiles(ctx, file.UserID); deletedCount++
Cleanup_InvUser ==
  /\ sw.pc = "sw_inv2"
  /\ \E ok \in BOOLEAN :
       /\ Answers(ok)
       /\ cache' = IF ok
                   THEN CacheDelete(cache, UserFilesKey(sw.files[sw.i].UserID))
                   ELSE cache
       /\ sw' = NextFile([sw EXCEPT !.count = @ + 1, !.fault = @ \/ ~ok])
  /\ UNCHANGED ext
  /\ UNCHANGED <<now, storageKind, db, blobs, nextKey, nextId, pc, call, loc,
                 res, log, ops, hist>>

\* s.fileRepo.DeleteExpiredFiles(batchSize): the rows it removes are the
\* expired rows of this moment, whatever the loop fetched or deleted
Cleanup_DeleteExpired ==
  /\ sw.pc = "sw_db"
  /\ \E ok \in BOOLEAN, pick \in LimitChoices(ExpiredIds(db, now), BatchSize) :
       /\ Answers(ok)
       /\ IF ok
          THEN /\ db' = DeleteRows(db, pick)
               /\ shares' = CascadeShares(shares, pick)
               /\ sw' = [sw EXCEPT !.pc = "idle", !.files = <<>>, !.i = 0,
                                   !.ret = Cardinality(pick),
                                   !.rowsDeleted = pick, !.quiet = ~sw.fault]
               /\ hist' = [hist EXCEPT !.modified = @ \cup pick]
          ELSE /\ sw' = [sw EXCEPT !.pc = "idle", !.files = <<>>, !.i = 0,
                                   !.ret = sw.count, !.err = "db",
                                   !.fault = TRUE]
               /\ hist' = [hist EXCEPT !.ghost = @ \cup sw.blobDeleted]
               /\ UNCHANGED <<db, shares>>
  /\ UNCHANGED <<wk, rl, mc>>
  /\ UNCHANGED <<now, storageKind, blobs, cache, nextKey, nextId, pc, call, loc,
                 res, log, ops>>

(* ------------------------------ the clock ------------------------------- *)
\* time passes
Tick ==
  /\ now < MaxTime
  /\ now' = now + 1
  /\ sw' = Disturbed
  /\ UNCHANGED ext
  /\ UNCHANGED <<storageKind, db, blobs, cache, nextKey, nextId, pc, call, loc,
                 res, log, ops, faults, hist>>

(* ------------------ FileService.ShareFile / GetSharedFile --------------- *)
\* the expiresIn strings ShareFile is called with ("" asks for no expiry)
ShareInputs == {"", "0s", "-5m", "5m", "24"}

\* an answer of ShareFile: the link it created
OkShare(id) == [err |-> "", files |-> <<>>, gone |-> {}, share |-> id]

\* INSERT INTO shared_files: the share url is fresh, expires_at is bound to
\* the Go value; origin is the time.Now() the expiry was computed from
CreateShareLink(sh, fileID, expiresAt, origin) ==
  Append(sh, [file_id |-> fileID, expires_at |-> expiresAt, origin |-> origin])

\* ShareFile as it would be without its ownership check
ShareChecksAnyone(p, file, u, in) ==
  LET dur == ParseDuration(in) IN
  IF in # "" /\ ~dur.ok THEN Return(p, Err("invalid_duration"))
  ELSE Goto(p, "sh_create",
            <<IF in = "" THEN ZeroTime ELSE now + dur.d, now>>)

\* ShareFile after s.GetFile: the ownership check, time.ParseDuration and
\* expiresAt = time.Now().Add(duration); no expiresIn leaves the zero time
ShareChecks(p, file, u, in) ==
  LET dur == ParseDuration(in) IN
  IF file.UserID # u THEN Return(p, Err("forbidden"))
  ELSE IF in # "" /\ ~dur.ok THEN Return(p, Err("invalid_duration"))
  ELSE Goto(p, "sh_create",
            <<IF in = "" THEN ZeroTime ELSE now + dur.d, now>>)

\* s.GetFile: s.cache.GetFile
ShareFile_Cache(p) ==
  /\ Len(shares) < MaxShares
  /\ \E f \in TargetIds, u \in Users, in \in ShareInputs, ok \in BOOLEAN :
       LET key == FileKey(f) IN
       /\ Called(p, [NoCall EXCEPT !.op = "ShareFile", !.fileID = f,
                       !.userID = u, !.arg = in])
       /\ LoggedFirst(p, "cache.GetFile", ok)
       /\ Answers(ok)
       /\ IF ok /\ CacheHit(cache, key, now)
          THEN /\ UNCHANGED cache
               /\ ShareChecks(p, UnmarshalFile(cache[key].value), u, in)
          ELSE /\ cache' = IF ok THEN CacheAfterGet(cache, key, now) ELSE cache
               /\ Goto(p, "sh_db", <<>>)
  /\ UNCHANGED <<now, storageKind, db, blobs, nextKey, nextId, sw, hist>>
  /\ UNCHANGED <<shares, wk, rl, mc>>

\* s.GetFile: s.fileRepo.GetFileByID
ShareFile_DB(p) ==
  /\ pc[p] = "sh_db"
  /\ LET f == call[p].fileID IN
     \E ok \in BOOLEAN :
       /\ Logged(p, "repo.GetFileByID", ok)
       /\ Answers(ok)
       /\ IF ok /\ f \in DOMAIN db /\ Scannable(db[f])
          THEN Goto(p, "sh_set", <<ScanFile(f, db[f])>>)
          ELSE Return(p, Err(IF ok THEN "not_found" ELSE "db"))
  /\ UNCHANGED <<now, storageKind, db, blobs, cache, nextKey, nextId, call, ops,
                 sw, hist>>
  /\ UNCHANGED <<shares, wk, rl, mc>>

\* s.GetFile: _ = s.cache.SetFile; then the checks of ShareFile
ShareFile_Set(p) ==
  /\ pc[p] = "sh_set"
  /\ LET file == loc[p][1] IN
     \E ok \in BOOLEAN :
       /\ Logged(p, "cache.SetFile", ok)
       /\ Answers(ok)
       /\ cache' = IF ok
                   THEN CacheSet(cache, FileKey(file.ID), MarshalFile(file),
                                 CacheTTL, now)
                   ELSE cache
       /\ ShareChecks(p, file, call[p].userID, call[p].arg)
  /\ UNCHANGED <<now, storageKind, db, blobs, nextKey, nextId, call, ops, sw, hist>>
  /\ UNCHANGED <<shares, wk, rl, mc>>

\* s.fileRepo.CreateShareLink(fileID, expiresAt): the insert fails when the
\* file row is gone (file_id REFERENCES files(id))
ShareFile_Create(p) ==
  /\ pc[p] = "sh_create"
  /\ \E io \in BOOLEAN :
       LET ok == io /\ call[p].fileID \in DOMAIN db IN
       /\ Logged(p, "repo.CreateShareLink", ok)
       /\ Answers(io)
       /\ IF ok
          THEN /\ shares' = CreateShareLink(shares, call[p].fileID, loc[p][1],
                                            loc[p][2])
               /\ Return(p, OkShare(Len(shares) + 1))
          ELSE /\ Return(p, Err("db"))
               /\ UNCHANGED shares
  /\ UNCHANGED <<now, storageKind, db, blobs, cache, nextKey, nextId, call, ops,
                 sw, hist>>
  /\ UNCHANGED <<wk, rl, mc>>

\* the share urls a caller names: the links created so far and one that
\* names no link
ShareIds == 1..(Len(shares) + 1)

\* the expiry check of GetSharedFile at the instant t
LinkExpired(link, t) == link.expires_at # ZeroTime /\ t > link.expires_at

\* GetSharedFile as it would be without its expiry check
GetSharedFile_LinkNoExpiry(p) ==
  /\ \E sid \in ShareIds, ok \in BOOLEAN :
       LET found == ok /\ sid \in DOMAIN shares /\ shares[sid] # NoLink
           c == [NoCall EXCEPT !.op = "GetSharedFile",
                               !.fileID = IF found THEN shares[sid].file_id
                                          ELSE EmptyID,
                               !.arg = <<sid, now>>] IN
       /\ Called(p, c)
       /\ LoggedFirst(p, "repo.GetSharedFile", ok)
       /\ Answers(ok)
       /\ IF ~found THEN Return(p, Err(IF ok THEN "not_found" ELSE "db"))
          ELSE Goto(p, "gs_cache", <<>>)
  /\ UNCHANGED <<now, storageKind, db, blobs, cache, nextKey, nextId, sw, hist>>
  /\ UNCHANGED <<shares, wk, rl, mc>>

\* s.fileRepo.GetSharedFile(shareID) and the expiry check against time.Now()
GetSharedFile_Link(p) ==
  /\ \E sid \in ShareIds, ok \in BOOLEAN :
       LET found == ok /\ sid \in DOMAIN shares /\ shares[sid] # NoLink
           c == [NoCall EXCEPT !.op = "GetSharedFile",
                               !.fileID = IF found THEN shares[sid].file_id
                                          ELSE EmptyID,
                               !.arg = <<sid, now>>] IN
       /\ Called(p, c)
       /\ LoggedFirst(p, "repo.GetSharedFile", ok)
       /\ Answers(ok)
       /\ IF ~found THEN Return(p, Err(IF ok THEN "not_found" ELSE "db"))
          ELSE IF LinkExpired(shares[sid], now) THEN Return(p, Err("expired"))
          ELSE Goto(p, "gs_cache", <<>>)
  /\ UNCHANGED <<now, storageKind, db, blobs, cache, nextKey, nextId, sw, hist>>
  /\ UNCHANGED <<shares, wk, rl, mc>>

\* s.GetFile: s.cache.GetFile; on a miss GetFile goes on as in GetFile_DB
GetSharedFile_Cache(p) ==
  /\ pc[p] = "gs_cache"
  /\ \E ok \in BOOLEAN :
       LET key == FileKey(call[p].fileID) IN
       /\ Logged(p, "cache.GetFile", ok)
       /\ Answers(ok)
       /\ IF ok /\ CacheHit(cache, key, now)
          THEN /\ Return(p, OkRead(<<UnmarshalFile(cache[key].value)>>))
               /\ UNCHANGED cache
          ELSE /\ cache' = IF ok THEN CacheAfterGet(cache, key, now) ELSE cache
               /\ Goto(p, "gf_db", <<>>)
  /\ UNCHANGED <<now, storageKind, db, blobs, nextKey, nextId, call, ops, sw, hist>>
  /\ UNCHANGED <<shares, wk, rl, mc>>

(* ------------------------ middleware.RateLimiter ------------------------ *)
\* strconv.Itoa and strconv.Atoi on the counts a limiter reaches; the limiter
\* drops Atoi's error, so what is no number counts as 0
Digits == <<"0", "1", "2", "3", "4", "5", "6", "7", "8", "9">>
Itoa(n) == IF n < 10 THEN Digits[n + 1] ELSE "many"
Atoi(str) ==
  IF \E n \in 0..9 : Digits[n + 1] = str
  THEN CHOOSE n \in 0..9 : Digits[n + 1] = str
  ELSE 0

\* key := "ratelimit:" + identifier
LimitKey(id) == <<"ratelimit", id>>

\* an answer of the limiter: 429 with Retry-After, or the next handler runs
Denied(retryAfter) ==
  [err |-> "rate_limited", files |-> <<>>, gone |-> {}, retryAfter |-> retryAfter]
Admitted == Ok(<<>>)

\* the limit check as it would be with a limit that is one too high
ExceededOffByOne(count) == count > MaxRequests

\* if count >= rl.maxRequests
Exceeded(count) == count >= MaxRequests

\* a request of id starts at time t: it opens a window when id has none or
\* WindowSeconds have elapsed since the first request of its window, it is
\* one more request of the window otherwise; the requests stay clean while
\* they are processed one at a time and no cache call fails
Arrives(p, id, okGet) ==
  LET h == rl[id]
      opens == h.w = 0 \/ now > h.t0 + WindowSeconds
      alone == \A q \in Procs \ {p} :
                 ~(pc[q] = "rl_set" /\ call[q].userID = id) IN
  rl' = [rl EXCEPT ![id] =
           [t0 |-> IF opens THEN now ELSE h.t0,
            w |-> IF opens THEN h.w + 1 ELSE h.w,
            k |-> IF opens THEN 1 ELSE h.k + 1,
            clean |-> h.clean /\ alone /\ okGet,
            adm |-> h.adm]]

\* the limiter as it would be if it refused a request whose counter it
\* cannot read
Limit_GetFailsClosed(p) ==
  /\ \E id \in Users, ok \in BOOLEAN :
       LET key == LimitKey(id)
           count == IF ok /\ CacheHit(cache, key, now)
                    THEN Atoi(cache[key].value) ELSE 0 IN
       /\ Called(p, [NoCall EXCEPT !.op = "Limit", !.userID = id,
                       !.arg = <<IF rl[id].w = 0 \/ now > rl[id].t0 + WindowSeconds
                                 THEN <<rl[id].w + 1, 1>>
                                 ELSE <<rl[id].w, rl[id].k + 1>>, now>>])
       /\ LoggedFirst(p, "cache.Get", ok)
       /\ Answers(ok)
       /\ Arrives(p, id, ok)
       /\ cache' = IF ok THEN CacheAfterGet(cache, key, now) ELSE cache
       /\ IF Exceeded(count) \/ ~ok
          THEN Return(p, Denied(Itoa(WindowSeconds)))
          ELSE Goto(p, "rl_set", <<count>>)
  /\ UNCHANGED <<now, storageKind, db, blobs, nextKey, nextId, sw, hist>>
  /\ UNCHANGED <<shares, wk, mc>>

\* rl.cache.Get; count, _ = strconv.Atoi(countStr); the limit check
Limit_Get(p) ==
  /\ \E id \in Users, ok \in BOOLEAN :
       LET key == LimitKey(id)
           count == IF ok /\ CacheHit(cache, key, now)
                    THEN Atoi(cache[key].value) ELSE 0 IN
       /\ Called(p, [NoCall EXCEPT !.op = "Limit", !.userID = id,
                       !.arg = <<IF rl[id].w = 0 \/ now > rl[id].t0 + WindowSeconds
                                 THEN <<rl[id].w + 1, 1>>
                                 ELSE <<rl[id].w, rl[id].k + 1>>, now>>])
       /\ LoggedFirst(p, "cache.Get", ok)
       /\ Answers(ok)
       /\ Arrives(p, id, ok)
       /\ cache' = IF ok THEN CacheAfterGet(cache, key, now) ELSE cache
       /\ IF Exceeded(count)
          THEN Return(p, Denied(Itoa(WindowSeconds)))
          ELSE Goto(p, "rl_set", <<count>>)
  /\ UNCHANGED <<now, storageKind, db, blobs, nextKey, nextId, sw, hist>>
  /\ UNCHANGED <<shares, wk, mc>>

\* the requests of id the limiter has let through since the counter key of
\* id was last absent from the cache
AdmittedSince(id) ==
  IF CacheHit(cache, LimitKey(id), now) THEN rl[id].adm ELSE 0

\* rl.cache.Set(key, strconv.Itoa(count+1), expiration), in either branch and
\* with its error dropped; then next.ServeHTTP
Limit_Set(p) ==
  /\ pc[p] = "rl_set"
  /\ LET id == call[p].userID IN
     \E ok \in BOOLEAN :
       /\ Logged(p, "cache.Set", ok)
       /\ Answers(ok)
       /\ cache' = IF ok
                   THEN CacheSet(cache, LimitKey(id), Itoa(loc[p][1] + 1),
                                 WindowSeconds, now)
                   ELSE cache
       /\ rl' = [rl EXCEPT ![id].clean = @ /\ ok,
                          ![id].adm = AdmittedSince(id) + 1]
       /\ Return(p, Admitted)
  /\ UNCHANGED <<now, storageKind, db, blobs, nextKey, nextId, call, ops, sw, hist>>
  /\ UNCHANGED <<shares, wk, mc>>

(* --------------------------- cache.MemoryCache -------------------------- *)
\* the keys and the marshalled values the callers of the MemoryCache use
MapKeys == {FileKey(1), UserFilesKey(1)}
MapValues == {"x", "y"}

\* what a step of the MemoryCache leaves alone
MemOnly ==
  UNCHANGED <<now, storageKind, db, blobs, cache, nextKey, nextId, pc, call, loc,
              res, log, ops, faults, sw, hist, shares, wk, rl>>

\* the entries of d that time t is after
ExpiredKeys(d, t) == {k \in DOMAIN d : t > d[k].expiration}

\* whether the access a writes the map that holds d: Set and Delete do, Get
\* does when it meets an expired entry (delete in Get), cleanup does when it
\* meets one (delete in the range loop)
Writes(a, d) ==
  \/ a.op \in {"set", "delete"}
  \/ a.op = "get" /\ a.key \in ExpiredKeys(d, a.expiration)
  \/ a.op = "cleanup" /\ ExpiredKeys(d, a.expiration) # {}

\* the map after the access a
Effect(a, d) ==
  CASE a.op = "set" ->
         CacheSet(d, a.key, a.value, CacheTTL, a.expiration - CacheTTL)
    [] a.op = "delete" -> CacheDelete(d, a.key)
    [] a.op = "get" -> CacheAfterGet(d, a.key, a.expiration)
    [] a.op = "cleanup" ->
         [k \in DOMAIN d \ ExpiredKeys(d, a.expiration) |-> d[k]]
    [] OTHER -> d

\* the error MemoryCache.Get returns ("" for nil): one text for a key that
\* is not in the map, another for an entry that time.Now() is after
MemoryGet(d, key, t) ==
  IF key \notin DOMAIN d THEN "key not found in cache"
  ELSE IF t > d[key].expiration THEN "key not found in cache (expired)"
  ELSE ""

\* what the access a answers its goroutine g
Answered(g, a, d) ==
  IF a.op = "get"
  THEN [mc.got EXCEPT ![g] = MemoryGet(d, a.key, a.expiration)]
  ELSE mc.got

\* a goroutine may reach a map access: the map has no mutex, so nothing
\* makes it wait for the goroutines that are accessing it
CanEnter(g) == ~mc.fatal /\ mc.ops > 0 /\ mc.acc[g] = Outside
Entered(g, a) == [mc EXCEPT !.acc[g] = a, !.ops = @ - 1]

\* Set: c.data[key] = cacheItem{value, time.Now().Add(expiration)}
Mem_Set(g) ==
  /\ CanEnter(g)
  /\ \E k \in MapKeys, v \in MapValues :
       mc' = Entered(g, [op |-> "set", key |-> k, value |-> v,
                         expiration |-> now + CacheTTL])
  /\ MemOnly

\* Get: item, ok := c.data[key], and delete(c.data, key) if time.Now() is
\* after item.expiration
Mem_Get(g) ==
  /\ CanEnter(g)
  /\ \E k \in MapKeys :
       mc' = Entered(g, [op |-> "get", key |-> k, value |-> "",
                         expiration |-> now])
  /\ MemOnly

\* Delete: delete(c.data, key)
Mem_Delete(g) ==
  /\ CanEnter(g)
  /\ \E k \in MapKeys :
       mc' = Entered(g, [op |-> "delete", key |-> k, value |-> "",
                         expiration |-> now])
  /\ MemOnly

\* cleanup: now := time.Now(), then the range loop over c.data
Mem_Cleanup ==
  /\ CanEnter("cleanup")
  /\ mc' = Entered("cleanup", [op |-> "cleanup", key |-> <<>>, value |-> "",
                               expiration |-> now])
  /\ MemOnly

\* the access of g runs while another goroutine accesses the map and one of
\* the two writes it: a data race
Races(g) ==
  \E h \in Goroutines \ {g} :
    /\ mc.acc[h] # Outside
    /\ Writes(mc.acc[g], mc.data) \/ Writes(mc.acc[h], mc.data)

\* an access that no other access conflicts with ends with its effect
Mem_Done(g) ==
  /\ ~mc.fatal
  /\ mc.acc[g] # Outside
  /\ ~Races(g)
  /\ mc' = [mc EXCEPT !.acc[g] = Outside, !.data = Effect(mc.acc[g], @),
                       !.got = Answered(g, mc.acc[g], mc.data)]
  /\ MemOnly

\* a racing access: the runtime may end the process (fatal error: concurrent
\* map read and map write, concurrent map writes), the write may be lost, or
\* the access may end with its effect
Mem_Raced(g) ==
  /\ ~mc.fatal
  /\ mc.acc[g] # Outside
  /\ Races(g)
  /\ \/ mc' = [mc EXCEPT !.fatal = TRUE]
     \/ /\ Writes(mc.acc[g], mc.data)
        /\ mc' = [mc EXCEPT !.acc[g] = Outside, !.lost = TRUE]
     \/ mc' = [mc EXCEPT !.acc[g] = Outside, !.data = Effect(mc.acc[g], @),
                          !.got = Answered(g, mc.acc[g], mc.data)]
  /\ MemOnly

(* ----------------------- worker.FileCleanupWorker ----------------------- *)
\* context.WithTimeout(context.Background(), 5*time.Minute), in clock units
TickTimeout == 1

\* time passes, up to the instant until
Elapse(until) ==
  /\ now < until
  /\ now' = now + 1
  /\ sw' = Disturbed
  /\ UNCHANGED ext
  /\ UNCHANGED <<storageKind, db, blobs, cache, nextKey, nextId, pc, call, loc,
                 res, log, ops, faults, hist>>

\* what a step of the worker leaves alone
WorkerOnly ==
  UNCHANGED <<now, storageKind, db, blobs, cache, nextKey, nextId, pc, call, loc,
              res, log, ops, faults, hist, shares, rl, mc>>

\* runningMutex is free and the process has not panicked
MutexFree == ~wk.panicked /\ ~wk.stopping

\* Start: under runningMutex; a running worker is left alone, otherwise
\* isRunning = true, wg.Add(1), go w.run()
Worker_Start ==
  /\ MutexFree
  /\ wk.calls > 0
  /\ wk' = IF wk.isRunning
           THEN [wk EXCEPT !.calls = @ - 1, !.lastCall = "Start"]
           ELSE [wk EXCEPT !.calls = @ - 1, !.lastCall = "Start",
                           !.isRunning = TRUE, !.wg = @ + 1,
                           !.run = "startup", !.gen = @ + 1]
  /\ UNCHANGED sw
  /\ WorkerOnly

\* Stop, up to wg.Wait(): under runningMutex; without a running worker it
\* returns, otherwise close(w.stopChan), which panics on a closed channel
Worker_StopClose ==
  /\ MutexFree
  /\ wk.calls > 0
  /\ wk' = IF ~wk.isRunning
           THEN [wk EXCEPT !.calls = @ - 1, !.lastCall = "Stop"]
           ELSE IF wk.stopClosed
           THEN [wk EXCEPT !.calls = @ - 1, !.lastCall = "Stop",
                           !.panicked = TRUE]
           ELSE [wk EXCEPT !.calls = @ - 1, !.lastCall = "Stop",
                           !.stopClosed = TRUE, !.stopping = TRUE,
                           !.waited = wk.run \in {"startup", "tick"}]
  /\ UNCHANGED sw
  /\ WorkerOnly

\* Stop as it would be without wg.Wait(): it returns at once
Worker_StopReturnsAtOnce ==
  /\ ~wk.panicked
  /\ wk.stopping
  /\ wk' = [wk EXCEPT !.stopping = FALSE, !.isRunning = FALSE,
                      !.stoppedGen = wk.gen,
                      !.stoppedInTick = wk.run \in {"tick", "hung"}]
  /\ UNCHANGED sw
  /\ WorkerOnly

\* Stop, from wg.Wait() on: it returns once run has called wg.Done()
Worker_StopWait ==
  /\ ~wk.panicked
  /\ wk.stopping
  /\ wk.wg = 0
  /\ wk' = [wk EXCEPT !.stopping = FALSE, !.isRunning = FALSE,
                      !.stoppedGen = wk.gen,
                      !.stoppedInTick = wk.run \in {"tick", "hung"}]
  /\ UNCHANGED sw
  /\ WorkerOnly

\* run calls cleanupFiles, once on startup and then when the ticker fires
\* (select may take the ticker also when stopChan is closed); cleanupFiles
\* gives the tick its deadline
Worker_BeginTick ==
  /\ ~wk.panicked
  /\ \/ wk.run = "startup"
     \/ wk.run = "select" /\ wk.ticks > 0
  /\ wk' = [wk EXCEPT !.run = "tick", !.deadline = now + TickTimeout,
                      !.ticks = IF wk.run = "select" THEN @ - 1 ELSE @]
  /\ sw' = [sw EXCEPT !.ran = FALSE]
  /\ WorkerOnly

\* the CleanupExpiredFiles call of the tick is at its first store call
TickAtStart == wk.run = "tick" /\ sw.pc = "idle" /\ ~sw.ran /\ ~wk.panicked
\* the CleanupExpiredFiles call of the tick is under way
TickUnderWay == wk.run = "tick" /\ sw.pc # "idle" /\ ~wk.panicked

Worker_GetExpired == TickAtStart /\ Cleanup_GetExpired
Worker_Storage == TickUnderWay /\ Cleanup_Storage
Worker_InvFile == TickUnderWay /\ Cleanup_InvFile
Worker_InvUser == TickUnderWay /\ Cleanup_InvUser
Worker_DeleteExpired == TickUnderWay /\ Cleanup_DeleteExpired

\* a call of the metadata store or of the blob store never returns: these
\* calls are not given the context, so its deadline does not end them
Worker_Hang ==
  /\ \/ TickAtStart
     \/ TickUnderWay /\ sw.pc \in {"sw_store", "sw_db"}
  /\ wk' = [wk EXCEPT !.run = "hung"]
  /\ UNCHANGED sw
  /\ WorkerOnly

\* CleanupExpiredFiles has returned: cleanupFiles logs and returns to the loop
Worker_EndTick ==
  /\ ~wk.panicked
  /\ wk.run = "tick" /\ sw.pc = "idle" /\ sw.ran
  /\ wk' = [wk EXCEPT !.run = "select"]
  /\ UNCHANGED sw
  /\ WorkerOnly

\* case <-w.stopChan: run returns, and its deferred wg.Done() runs
Worker_Exit ==
  /\ ~wk.panicked
  /\ wk.run = "select" /\ wk.stopClosed
  /\ wk' = [wk EXCEPT !.run = "exited", !.wg = @ - 1]
  /\ UNCHANGED sw
  /\ WorkerOnly

(* ------------- controllers.SearchFiles / controllers.UpdateFile --------- *)
\* file names are sequences of letters, for ILIKE to look into
Lower(ch) == IF ch = "A" THEN "a" ELSE IF ch = "B" THEN "b" ELSE ch
LowerAll(str) == [i \in DOMAIN str |-> Lower(str[i])]

\* file_name ILIKE '%' || pattern || '%'
ILike(name, pattern) ==
  \E i \in 0..Len(name) :
    /\ i + Len(pattern) <= Len(name)
    /\ LowerAll(SubSeq(name, i + 1, i + Len(pattern))) = LowerAll(pattern)

\* time.Parse("2006-01-02", uploadDate): the day of a well-formed date
ParseDay(str) ==
  IF str = "0001-01-02" THEN [ok |-> TRUE, day |-> 1]
  ELSE IF str = "0001-01-03" THEN [ok |-> TRUE, day |-> 2]
  ELSE [ok |-> FALSE, day |-> 0]

\* the rows of table files of the gorm models, as two uploads left them
SearchRows ==
  <<[file_name |-> <<"a">>, file_type |-> "text/plain", user_id |-> 1,
     created_at |-> 1, url |-> <<1, <<"a">>>>],
    [file_name |-> <<"A", "b">>, file_type |-> "image/png", user_id |-> 1,
     created_at |-> 1, url |-> <<1, <<"A", "b">>>>]>>

\* gorm scanning a row into models.File
ScanGorm(id, row) ==
  [ID |-> id, FileName |-> row.file_name, FileType |-> row.file_type,
   UserID |-> row.user_id, CreatedAt |-> row.created_at, URL |-> row.url]

\* json.Marshal and json.Unmarshal of models.File: the struct has no json
\* tags on these fields, so the keys are the field names
MarshalGorm(file) ==
  [k \in {"ID", "FileName", "FileType", "UserID", "CreatedAt", "URL"} |->
     CASE k = "ID" -> file.ID [] k = "FileName" -> file.FileName
       [] k = "FileType" -> file.FileType [] k = "UserID" -> file.UserID
       [] k = "CreatedAt" -> file.CreatedAt [] OTHER -> file.URL]
UnmarshalGorm(js) ==
  [ID |-> js["ID"], FileName |-> js["FileName"], FileType |-> js["FileType"],
   UserID |-> js["UserID"], CreatedAt |-> js["CreatedAt"], URL |-> js["URL"]]

\* the query parameters name, type and date, and limit and offset
SearchFilters ==
  [name : {<<>>, <<"a">>}, type : {"", "image/png"}, date : {"", "0001-01-02"}]
SearchPages == {<<1, 0>>, <<2, 0>>, <<1, 1>>}

\* cacheKey := fmt.Sprintf("files:%v:name=%s:type=%s:date=%s", ...)
SearchKey(userID, flt) == <<"files", userID, flt.name, flt.type, flt.date>>

\* the WHERE clauses, Limit and Offset of SearchFiles over table d
SearchQuery(d, userID, flt, lim, off) ==
  LET day == ParseDay(flt.date)
      ids == {i \in DOMAIN d :
                /\ d[i].user_id = userID
                /\ flt.name # <<>> => ILike(d[i].file_name, flt.name)
                /\ flt.type # "" => d[i].file_type = flt.type
                /\ (flt.date # "" /\ day.ok) => d[i].created_at = day.day}
      page == Page(Ascending(ids), lim, off)
  IN [k \in DOMAIN page |-> ScanGorm(page[k], d[page[k]])]

\* SearchFiles, up to the cache lookup: a hit is answered from the cache
Controllers_SearchFiles_Get(p) ==
  /\ \E u \in Owners, flt \in SearchFilters, page \in SearchPages,
        ok \in BOOLEAN :
       LET key == SearchKey(u, flt) IN
       /\ Called(p, [NoCall EXCEPT !.op = "SearchFiles", !.userID = u,
                       !.limit = page[1], !.offset = page[2], !.arg = flt,
                       !.seen = hist.modified])
       /\ LoggedFirst(p, "redis.Get", ok)
       /\ Answers(ok)
       /\ IF ok /\ CacheHit(cache, key, now)
          THEN Return(p, Ok([i \in DOMAIN cache[key].value |->
                               UnmarshalGorm(cache[key].value[i])]))
          ELSE Goto(p, "sf_find", <<key>>)
       /\ cache' = IF ok THEN CacheAfterGet(cache, key, now) ELSE cache
  /\ UNCHANGED ext
  /\ UNCHANGED <<now, storageKind, db, blobs, nextKey, nextId, sw, hist>>

\* SearchFiles: query.Find(&files)
Controllers_SearchFiles_Find(p) ==
  /\ pc[p] = "sf_find"
  /\ \E ok \in BOOLEAN :
       /\ Logged(p, "db.Find", ok)
       /\ Answers(ok)
       /\ IF ok
          THEN Goto(p, "sf_set",
                    <<loc[p][1], SearchQuery(db, call[p].userID, call[p].arg,
                                             call[p].limit, call[p].offset)>>)
          ELSE Return(p, Err("db"))
  /\ UNCHANGED ext
  /\ UNCHANGED <<now, storageKind, db, blobs, cache, nextKey, nextId, call, ops,
                 sw, hist>>

\* SearchFiles: RedisClient.Set(cacheKey, jsonData, 5*time.Minute), its error
\* dropped, and the answer
Controllers_SearchFiles_Set(p) ==
  /\ pc[p] = "sf_set"
  /\ \E ok \in BOOLEAN :
       /\ Logged(p, "redis.Set", ok)
       /\ Answers(ok)
       /\ cache' = IF ok
                   THEN CacheSet(cache, loc[p][1],
                                 [i \in DOMAIN loc[p][2] |->
                                    MarshalGorm(loc[p][2][i])],
                                 SearchTTL, now)
                   ELSE cache
       /\ Return(p, Ok(loc[p][2]))
  /\ UNCHANGED ext
  /\ UNCHANGED <<now, storageKind, db, blobs, nextKey, nextId, call, ops, sw, hist>>

\* controllers.UpdateFile, up to DB.Save: the row of the caller is renamed
Controllers_UpdateFile_Save(p) ==
  /\ \E u \in Owners, f \in DOMAIN db, ok \in BOOLEAN :
       /\ Called(p, [NoCall EXCEPT !.op = "RenameFile", !.userID = u,
                       !.fileID = f, !.arg = <<"b">>])
       /\ LoggedFirst(p, "db.Save", ok)
       /\ Answers(ok)
       /\ IF ok /\ db[f].user_id = u
          THEN /\ db' = [db EXCEPT ![f].file_name = <<"b">>]
               /\ hist' = [hist EXCEPT !.modified = @ \cup {f}]
               /\ Goto(p, "rf_del", <<>>)
          ELSE /\ Return(p, Err(IF ok THEN "not_found" ELSE "db"))
               /\ UNCHANGED <<db, hist>>
  /\ UNCHANGED ext
  /\ UNCHANGED <<now, storageKind, blobs, cache, nextKey, nextId, sw>>

\* controllers.UpdateFile: RedisClient.Keys("files:<user>:*") and Del of
\* each key
Controllers_UpdateFile_Del(p) ==
  /\ pc[p] = "rf_del"
  /\ \E ok \in BOOLEAN :
       /\ Logged(p, "redis.Keys", ok)
       /\ Answers(ok)
       /\ cache' = IF ok
                   THEN [k \in {j \in DOMAIN cache :
                                  ~(j[1] = "files" /\ j[2] = call[p].userID)}
                           |-> cache[k]]
                   ELSE cache
       /\ Return(p, Ok(<<>>))
  /\ UNCHANGED ext
  /\ UNCHANGED <<now, storageKind, db, blobs, nextKey, nextId, call, ops, sw, hist>>

(* ------------- controllers.UploadFile / jobs.StartCleanupJob ------------- *)
\* time.Now().Unix(): the second instant t falls in
UnixOf(t) == t \div TicksPerSecond

\* fmt.Sprintf("%d_%s", time.Now().Unix(), header.Filename): the name of the
\* saved file; "uploads/" + name is where it is written, "/uploads/" + name
\* its URL, and "." + URL the path the cleanup job removes
SavedName(t, headerName) == <<UnixOf(t), headerName>>

\* header.Filename of the uploads
UploadNames == {<<"a">>, <<"b">>}

\* the row DB.Create inserts for models.File
GormRow(file) ==
  [file_name |-> file.FileName, file_type |-> file.FileType,
   user_id |-> file.UserID, created_at |-> file.CreatedAt, url |-> file.URL,
   expires_at |-> file.ExpiresAt]

\* controllers.UploadFile, up to os.Create(savePath): the file is created, or
\* truncated when savePath holds a file already (blobs is the set of paths
\* under uploads/ that hold a file)
Controllers_UploadFile_Create(p) ==
  /\ nextId <= MaxUploads
  /\ \E u \in Owners, n \in UploadNames, ok \in BOOLEAN :
       /\ Called(p, [NoCall EXCEPT !.op = "SaveUpload", !.userID = u,
                       !.arg = n])
       /\ LoggedFirst(p, "os.Create", ok)
       /\ Answers(ok)
       /\ IF ok
          THEN /\ blobs' = blobs \cup {SavedName(now, n)}
               /\ Goto(p, "su_copy", <<SavedName(now, n)>>)
          ELSE /\ Return(p, Err("storage"))
               /\ UNCHANGED blobs
  /\ UNCHANGED ext
  /\ UNCHANGED <<now, storageKind, db, cache, nextKey, nextId, sw, hist>>

\* controllers.UploadFile: io.Copy(out, file); on an error the handler
\* answers 500 and leaves the file where it is
Controllers_UploadFile_Copy(p) ==
  /\ pc[p] = "su_copy"
  /\ \E ok \in BOOLEAN :
       /\ Logged(p, "io.Copy", ok)
       /\ Answers(ok)
       /\ IF ok THEN Goto(p, "su_db", loc[p]) ELSE Return(p, Err("storage"))
  /\ UNCHANGED ext
  /\ UNCHANGED <<now, storageKind, db, blobs, cache, nextKey, nextId, call, ops,
                 sw, hist>>

\* controllers.UploadFile: expiresAt := time.Now().Add(24*time.Hour),
\* DB.Create(&fileRecord) and the answer
Controllers_UploadFile_DB(p) ==
  /\ pc[p] = "su_db"
  /\ \E ok \in BOOLEAN :
       /\ Logged(p, "db.Create", ok)
       /\ Answers(ok)
       /\ LET file == [ID |-> nextId, FileName |-> call[p].arg,
                       FileType |-> "text/plain", UserID |-> call[p].userID,
                       CreatedAt |-> now, URL |-> loc[p][1],
                       ExpiresAt |-> now + UploadExpiry] IN
          IF ok
          THEN /\ db' = [i \in DOMAIN db \cup {nextId} |->
                           IF i = nextId THEN GormRow(file) ELSE db[i]]
               /\ nextId' = nextId + 1
               /\ Return(p, Ok(<<file>>))
          ELSE /\ Return(p, Err("db"))
               /\ UNCHANGED <<db, nextId>>
  /\ UNCHANGED ext
  /\ UNCHANGED <<now, storageKind, blobs, cache, nextKey, call, ops, sw, hist>>

\* StartCleanupJob, a tick: Find of the rows with expires_at <= time.Now();
\* an error is logged and the tick is over
Job_Find ==
  /\ sw.pc = "idle"
  /\ \E ok \in BOOLEAN :
       /\ Answers(ok)
       /\ LET ids == {f \in DOMAIN db : db[f].expires_at <= now}
              files == Ascending(ids) IN
          sw' = IF ok /\ ids # {}
                THEN [sw EXCEPT !.pc = "job_remove", !.i = 1,
                                !.files = [k \in DOMAIN files |->
                                   [ID |-> files[k], URL |-> db[files[k]].url]],
                                !.fetched = @ \cup ids]
                ELSE [sw EXCEPT !.ran = TRUE]
  /\ UNCHANGED ext
  /\ UNCHANGED <<now, storageKind, db, blobs, cache, nextKey, nextId, pc, call,
                 loc, res, log, ops, hist>>

\* StartCleanupJob: os.Remove("." + file.URL); an error is logged and the
\* loop goes on to DB.Delete
Job_Remove ==
  /\ sw.pc = "job_remove"
  /\ LET file == sw.files[sw.i] IN
     \E ok \in BOOLEAN :
       /\ Answers(ok)
       /\ IF ok /\ file.URL \in blobs
          THEN /\ blobs' = blobs \ {file.URL}
               /\ sw' = [sw EXCEPT !.pc = "job_delete",
                                   !.blobDeleted = @ \cup {file.ID}]
          ELSE /\ sw' = [sw EXCEPT !.pc = "job_delete",
                                   !.blobFailed = @ \cup {file.ID}]
               /\ UNCHANGED blobs
  /\ UNCHANGED ext
  /\ UNCHANGED <<now, storageKind, db, cache, nextKey, nextId, pc, call, loc,
                 res, log, ops, hist>>

\* StartCleanupJob: DB.Delete(&file), by primary key (the row gets its
\* deleted_at and is found by no query any more); an error is logged
Job_Delete ==
  /\ sw.pc = "job_delete"
  /\ LET file == sw.files[sw.i] IN
     \E ok \in BOOLEAN :
       /\ Answers(ok)
       /\ db' = IF ok THEN DeleteRows(db, {file.ID}) ELSE db
       /\ sw' = [sw EXCEPT !.pc = IF sw.i = Len(sw.files) THEN "idle"
                                   ELSE "job_remove",
                           !.i = IF sw.i = Len(sw.files) THEN 0 ELSE @ + 1,
                           !.files = IF sw.i = Len(sw.files) THEN <<>> ELSE @,
                           !.ran = TRUE,
                           !.rowsDeleted = IF ok THEN @ \cup {file.ID} ELSE @]
  /\ UNCHANGED ext
  /\ UNCHANGED <<now, storageKind, blobs, cache, nextKey, nextId, pc, call, loc,
                 res, log, ops, hist>>

(* ------------------------- storage.LocalStorage ------------------------- *)
\* time.Now().Format("2006/01/02"): the calendar day of instant t
DateOf(t) == t \div ClockPerDay

\* filepath.Join(date, uniqueName), below basePath: the path of a file
PathOf(date, uniqueName) == <<date, uniqueName>>

\* the storage keys Upload has returned to the handlers
KeysReturned ==
  {res[p].files[1] : p \in {q \in Procs : call[q].op = "Upload" /\ pc[q] = "idle"
                                           /\ res[q].err = ""}}

\* Upload, up to os.MkdirAll: dir is basePath joined with the day of the
\* first clock reading
Local_MkdirAll(p) ==
  /\ storageKind = "local"
  /\ nextKey <= MaxFiles
  /\ \E io \in BOOLEAN :
       /\ Called(p, [NoCall EXCEPT !.op = "Upload"])
       /\ LoggedFirst(p, "os.MkdirAll", io)
       /\ Answers(io)
       /\ IF io THEN Goto(p, "lu_create", <<DateOf(now)>>)
          ELSE Return(p, Err("upload"))
  /\ UNCHANGED ext
  /\ UNCHANGED <<now, storageKind, db, blobs, cache, nextKey, nextId, sw, hist>>

\* Upload, from uuid.New() on: fullPath is dir joined with the unique name,
\* relativePath the day of a second clock reading joined with it; the file
\* is written at fullPath and relativePath is returned
Local_Create(p) ==
  /\ pc[p] = "lu_create"
  /\ \E io \in BOOLEAN :
       LET uniqueName == nextKey
           fullPath == PathOf(loc[p][1], uniqueName)
           relativePath == PathOf(DateOf(now), uniqueName) IN
       /\ Logged(p, "os.Create", io)
       /\ Answers(io)
       /\ nextKey' = nextKey + 1
       /\ IF io
          THEN /\ blobs' = blobs \cup {fullPath}
               /\ Return(p, Ok(<<relativePath>>))
          ELSE /\ Return(p, Err("upload"))
               /\ UNCHANGED blobs
  /\ UNCHANGED ext
  /\ UNCHANGED <<now, storageKind, db, cache, nextId, call, ops, sw, hist>>

\* Delete(storagePath) of a key Upload has returned: os.Remove fails when
\* no file is at basePath joined with the key
Local_Delete(p) ==
  /\ storageKind = "local"
  /\ \E key \in KeysReturned :
       /\ Called(p, [NoCall EXCEPT !.op = "Delete", !.arg = key])
       /\ LoggedFirst(p, "os.Remove", key \in blobs)
       /\ blobs' = blobs \ {key}
       /\ Return(p, IF key \in blobs THEN Ok(<<>>) ELSE Err("storage_not_exist"))
  /\ UNCHANGED ext
  /\ UNCHANGED <<now, storageKind, db, cache, nextKey, nextId, faults, sw, hist>>

(* ------------------- config.Load and the tick interval ------------------ *)
\* an int64 and the exact value of a product, as little-endian bytes
Int64Bytes == 8
WideBytes == 10
Byte == 256

\* the bytes of a small non-negative int
Bytes(n, len) ==
  [i \in 1..len |-> IF i = 1 THEN n % Byte
                    ELSE IF i = 2 THEN (n \div Byte) % Byte
                    ELSE IF i = 3 THEN (n \div (Byte * Byte)) % Byte
                    ELSE 0]

\* what byte i of x * k receives from the bytes below it
RECURSIVE Carry(_, _, _)
Carry(x, k, i) ==
  IF i = 0 THEN 0 ELSE (x[i] * k + Carry(x, k, i - 1)) \div Byte

\* x * k in the width of x: what does not fit is dropped, as Go's integer
\* multiplication wraps
Times(x, k) ==
  [i \in DOMAIN x |-> (x[i] * k + Carry(x, k, i - 1)) % Byte]

\* x * time.Second (1e9 ns) and x * time.Minute
TimesSecond(x) == Times(Times(Times(x, 1000), 1000), 1000)
TimesMinute(x) == Times(TimesSecond(x), 60)

\* a non-negative int64 in the width that holds the exact products
Widen(x) == [i \in 1..WideBytes |-> IF i \in DOMAIN x THEN x[i] ELSE 0]

\* d <= 0 for an int64 d
NonPositive(d) ==
  \/ d[Int64Bytes] >= Byte \div 2
  \/ \A i \in DOMAIN d : d[i] = 0

\* CACHE_TTL_MINUTES as the deployments set it
TTLMinutes == 1..MaxTTLMinutes

\* config.Load: CacheTTL: time.Duration(cacheTTLMinutes) * time.Minute
Load ==
  /\ wk.stage = "unset"
  /\ \E m \in TTLMinutes :
       wk' = [wk EXCEPT !.stage = "loaded",
                        !.cacheTTL = TimesMinute(Bytes(m, Int64Bytes))]
  /\ UNCHANGED sw
  /\ WorkerOnly

\* main: worker.NewFileCleanupWorker(fileService,
\* time.Duration(cfg.CacheTTL)*time.Second, 10)
NewFileCleanupWorker ==
  /\ wk.stage = "loaded"
  /\ wk' = [wk EXCEPT !.stage = "made", !.interval = TimesSecond(wk.cacheTTL)]
  /\ UNCHANGED sw
  /\ WorkerOnly

\* run: time.NewTicker(w.interval), which panics on a non-positive interval
Worker_NewTicker ==
  /\ wk.stage = "made"
  /\ wk' = [wk EXCEPT !.stage = "ticking",
                      !.panicked = NonPositive(wk.interval)]
  /\ UNCHANGED sw
  /\ WorkerOnly

(* --------------------------- specifications ----------------------------- *)
UploadFile(p) ==
  \/ UploadFile_Upload(p)
  \/ UploadFile_Create(p)
  \/ UploadFile_Compensate(p)
  \/ UploadFile_Invalidate(p)
  \/ UploadFile_SetFile(p)

GetFile(p) ==
  \/ GetFile_Cache(p)
  \/ GetFile_DB(p)
  \/ GetFile_SetFile(p)

GetUserFiles(p) ==
  \/ GetUserFiles_Cache(p)
  \/ GetUserFiles_DB(p)
  \/ GetUserFiles_Set(p)

UpdateFile(p) ==
  \/ UpdateFile_Get(p)
  \/ UpdateFile_DB(p)
  \/ UpdateFile_InvFile(p)
  \/ UpdateFile_InvUser(p)

DeleteFile(p) ==
  \/ DeleteFile_Get(p)
  \/ DeleteFile_Storage(p)
  \/ DeleteFile_DB(p)
  \/ DeleteFile_InvFile(p)
  \/ DeleteFile_InvUser(p)

CleanupExpiredFiles ==
  \/ Cleanup_GetExpired
  \/ Cleanup_Storage
  \/ Cleanup_InvFile
  \/ Cleanup_InvUser
  \/ Cleanup_DeleteExpired

\* uploads, reads, updates and deletions of concurrent request handlers
Next ==
  \/ \E p \in Procs : UploadFile(p)
  \/ \E p \in Procs : GetFile(p)
  \/ \E p \in Procs : UpdateFile(p)
  \/ \E p \in Procs : DeleteFile(p)
  \/ Tick

Spec == Init /\ [][Next]_vars

\* reads and deletions of a stored file
NextDelete ==
  \/ \E p \in Procs : GetFile(p)
  \/ \E p \in Procs : DeleteFile(p)

SpecDelete == InitStoredWith(DeleteOps, DeleteFaults) /\ [][NextDelete]_vars

\* listings and updates of a stored file
NextList ==
  \/ \E p \in Procs : GetUserFiles(p)
  \/ \E p \in Procs : UpdateFile(p)

SpecList == InitStoredWith(ListOps, ListFaults) /\ [][NextList]_vars

\* the expiry sweep over files that are uploaded and given an expiry
NextSweep ==
  \/ \E p \in Procs : UploadFile(p)
  \/ \E p \in Procs : UpdateFile(p)
  \/ CleanupExpiredFiles
  \/ Tick

SpecSweep == InitWith(SweepOps, SweepFaults) /\ [][NextSweep]_vars

\* the worker over stores that hold a file, started and stopped by its owner
NextWorker ==
  \/ Worker_Start
  \/ Worker_StopClose
  \/ Worker_StopWait
  \/ Worker_BeginTick
  \/ Worker_GetExpired
  \/ Worker_Storage
  \/ Worker_InvFile
  \/ Worker_InvUser
  \/ Worker_DeleteExpired
  \/ Worker_Hang
  \/ Worker_EndTick
  \/ Worker_Exit
  \/ Elapse(MaxTime + TickTimeout)

SpecWorker == InitStoredWith(0, WorkerFaults) /\ [][NextWorker]_vars

\* main calls Start once, in a goroutine of its own, and Stop once, at
\* shutdown: Start has been called when a run goroutine has been started,
\* Stop when there is a call more than that
StartCalled == wk.gen > 0
StopCalled == MaxCalls - wk.calls > (IF StartCalled THEN 1 ELSE 0)

\* go fileCleanupWorker.Start()
Main_GoStart == ~StartCalled /\ Worker_Start

\* fileCleanupWorker.Stop(), up to wg.Wait()
Main_Stop == ~StopCalled /\ Worker_StopClose

\* the worker as main uses it, the Start goroutine scheduled at any time
NextMain ==
  \/ Main_GoStart
  \/ Main_Stop
  \/ Worker_StopWait
  \/ Worker_BeginTick
  \/ Worker_GetExpired
  \/ Worker_Storage
  \/ Worker_InvFile
  \/ Worker_InvUser
  \/ Worker_DeleteExpired
  \/ Worker_Hang
  \/ Worker_EndTick
  \/ Worker_Exit
  \/ Elapse(MaxTime + TickTimeout)

SpecMain == InitStoredWith(0, WorkerFaults) /\ [][NextMain]_vars

ShareFile(p) ==
  \/ ShareFile_Cache(p)
  \/ ShareFile_DB(p)
  \/ ShareFile_Set(p)
  \/ ShareFile_Create(p)

GetSharedFile(p) ==
  \/ GetSharedFile_Link(p)
  \/ GetSharedFile_Cache(p)
  \/ GetFile_DB(p)
  \/ GetFile_SetFile(p)

\* the session that shares and deletes, and the one that holds the link
Sharer == "p1"
LinkHolder == "p2"

\* share links on a stored file that may be deleted, over a clock that runs
\* one link duration past MaxTime
NextShare ==
  \/ ShareFile(Sharer)
  \/ GetSharedFile(LinkHolder)
  \/ DeleteFile(Sharer)
  \/ Elapse(MaxTime + ParseDuration("5m").d)

SpecShare == InitStoredWith(ShareOps, ShareFaults) /\ [][NextShare]_vars

Limit(p) ==
  \/ Limit_Get(p)
  \/ Limit_Set(p)

\* requests through the limiter, over a clock that runs one window past
\* MaxTime
NextLimit ==
  \/ \E p \in Procs : Limit(p)
  \/ Elapse(MaxTime + WindowSeconds)

SpecLimit == InitWith(LimitOps, LimitFaults) /\ [][NextLimit]_vars

\* uploads through the gorm controller, the cleanup job and the clock
NextUploads ==
  \/ \E p \in Procs : Controllers_UploadFile_Create(p)
  \/ \E p \in Procs : Controllers_UploadFile_Copy(p)
  \/ \E p \in Procs : Controllers_UploadFile_DB(p)
  \/ Job_Find
  \/ Job_Remove
  \/ Job_Delete
  \/ Elapse(UploadHorizon)

SpecUploads == InitWith(UploadOps, UploadFaults) /\ [][NextUploads]_vars

\* searches and renames over a table that holds two files of one user
InitSearch ==
  /\ InitExt
  /\ now = StartTime
  /\ storageKind \in StorageKinds
  /\ db = SearchRows
  /\ blobs = {SearchRows[i].url : i \in DOMAIN SearchRows}
  /\ cache = <<>>
  /\ nextKey = 1
  /\ nextId = Len(SearchRows) + 1
  /\ pc = [p \in Procs |-> "idle"]
  /\ call = [p \in Procs |-> NoCall]
  /\ loc = [p \in Procs |-> <<>>]
  /\ res = [p \in Procs |-> Ok(<<>>)]
  /\ log = [p \in Procs |-> {}]
  /\ ops = SearchOps
  /\ faults = SearchFaults
  /\ sw = NoSweep
  /\ hist = NoHist

NextSearch ==
  \/ \E p \in Procs : Controllers_SearchFiles_Get(p)
  \/ \E p \in Procs : Controllers_SearchFiles_Find(p)
  \/ \E p \in Procs : Controllers_SearchFiles_Set(p)
  \/ \E p \in Procs : Controllers_UpdateFile_Save(p)
  \/ \E p \in Procs : Controllers_UpdateFile_Del(p)

SpecSearch == InitSearch /\ [][NextSearch]_vars

\* uploads to and deletions from the local storage, over a clock that runs
\* into the next calendar day
NextLocal ==
  \/ \E p \in Procs : Local_MkdirAll(p)
  \/ \E p \in Procs : Local_Create(p)
  \/ \E p \in Procs : Local_Delete(p)
  \/ Elapse(MaxTime + ClockPerDay)

SpecLocal == InitWith(LocalOps, LocalFaults) /\ [][NextLocal]_vars

\* the configuration of the tick interval, for every CACHE_TTL_MINUTES
NextInterval ==
  \/ Load
  \/ NewFileCleanupWorker
  \/ Worker_NewTicker

SpecInterval == InitWith(0, 0) /\ [][NextInterval]_vars

\* the first tick of the sweep
FirstSweep ==
  \/ ~sw.ran /\ Cleanup_GetExpired
  \/ Cleanup_Storage
  \/ Cleanup_InvFile
  \/ Cleanup_InvUser
  \/ Cleanup_DeleteExpired

\* every lifecycle operation of the service on a stored file at one instant:
\* one session writes and shares, the other reads, and the sweep runs its
\* first tick beside them
NextAll ==
  \/ UploadFile(Sharer)
  \/ UpdateFile(Sharer)
  \/ DeleteFile(Sharer)
  \/ ShareFile(Sharer)
  \/ GetFile(LinkHolder)
  \/ GetUserFiles(LinkHolder)
  \/ GetSharedFile(LinkHolder)
  \/ FirstSweep

SpecAll == InitStoredWith(AllOps, AllFaults) /\ [][NextAll]_vars

\* the handlers and the cleanup loop on one MemoryCache
NextMem ==
  \/ \E g \in Procs : Mem_Set(g)
  \/ \E g \in Procs : Mem_Get(g)
  \/ \E g \in Procs : Mem_Delete(g)
  \/ Mem_Cleanup
  \/ \E g \in Goroutines : Mem_Done(g)
  \/ \E g \in Goroutines : Mem_Raced(g)
  \/ Elapse(MaxTime + CacheTTL)

SpecMem == InitWith(0, 0) /\ [][NextMem]_vars

\* first-page listings beside a writer that bypasses the service
NextStale ==
  \/ \E p \in Procs : GetUserFiles(p)
  \/ DirectRename
  \/ \E u \in Owners : InvalidateUserFiles(u)
  \/ Tick

SpecStale == InitStoredWith(StaleOps, StaleFaults) /\ [][NextStale]_vars

(* ------------------------------ properties ------------------------------ *)
\* handler p has returned from a call of op
Returned(p, op) == pc[p] = "idle" /\ call[p].op = op

\* the names of the store calls handler p made in its current call
CallsOf(p) == {e[1] : e \in log[p]}

CacheCalls == {"cache.GetFile", "cache.SetFile", "cache.InvalidateFile",
               "cache.GetUserFiles", "cache.SetUserFiles",
               "cache.InvalidateUserFiles"}

\* C1: a GetFile(f) that starts after DeleteFile(f) by the owner has returned
\* success returns a not-found error (a failing metadata store aside), also
\* when another GetFile(f) ran concurrently with the delete
C1_ReadAfterDeleteNotFound ==
  \A p \in Procs :
    (Returned(p, "GetFile") /\ call[p].fileID \in call[p].seen.deletedOK)
      => /\ res[p].files = <<>>
         /\ res[p].err = "not_found" \/ <<"repo.GetFileByID", FALSE>> \in log[p]

\* C2: a file UploadFile has returned and on which no expiry was ever set is
\* never fetched by GetExpiredFiles and its row is never deleted by the sweep
C2_NoExpiryNeverSwept ==
  ((sw.fetched \cup sw.rowsDeleted) \cap DOMAIN hist.uploaded)
    \subseteq hist.expirySet

\* a sweep tick has ended that ran alone, with every store call succeeding
\* and no more files with a past expiry than the batch holds
CleanTickEnded ==
  /\ sw.pc = "idle" /\ sw.ran /\ sw.alone /\ ~sw.fault
  /\ Cardinality(sw.expired0) <= BatchSize

\* C3: such a tick removes exactly the files whose expiry lay in the past from
\* the blob store and from the metadata store, leaves the files whose expiry
\* lies in the future in both stores, and a tick that follows it immediately
\* removes nothing
C3_TickRemovesExactlyExpired ==
  CleanTickEnded =>
    /\ sw.rowsDeleted = sw.expired0
    /\ sw.blobDeleted = sw.expired0
    /\ \A i \in sw.future0 : i \in DOMAIN db /\ hist.keyOf[i] \in blobs
    /\ sw.follows => sw.rowsDeleted = {} /\ sw.blobDeleted = {}

\* C4: when the blob delete of a record fails in a tick, the tick has gone
\* through every other fetched record and the record's row is still there
\* when the tick has ended
C4_FailedRecordKeepsRow ==
  (sw.pc = "idle" /\ sw.ran /\ sw.blobFailed # {}) =>
    /\ sw.fetched = sw.blobFailed \cup sw.blobDeleted
    /\ (sw.blobFailed \cap hist.expirySet) \subseteq DOMAIN db

\* C5: no read returns a record whose blob was already gone from the blob
\* store when the read fetched the record, the ghost rows (metadata delete
\* failed after the blob delete) aside
C5_NoReadOfBloblessRecord ==
  \A p \in Procs :
    (Returned(p, "GetFile") \/ Returned(p, "GetUserFiles")) => res[p].gone = {}

\* C6: a first-page GetUserFiles(u) that starts after UpdateFile has renamed
\* f from a to b and returned success, both invalidations having succeeded,
\* lists f under the name b and not under the name a
C6_ListingShowsNewName ==
  \A p \in Procs :
    (Returned(p, "GetUserFiles") /\ call[p].offset = 0 /\ res[p].err = "") =>
      \A f \in DOMAIN call[p].seen.renamed \cap DOMAIN hist.renamed :
        (/\ hist.renamed[f] = call[p].seen.renamed[f]
         /\ f \in DOMAIN db /\ db[f].user_id = call[p].userID)
          => /\ \E i \in DOMAIN res[p].files :
                  /\ res[p].files[i].ID = f
                  /\ res[p].files[i].Name = hist.renamed[f][2]
             /\ \A i \in DOMAIN res[p].files :
                  res[p].files[i].ID = f
                    => res[p].files[i].Name # hist.renamed[f][1]

\* handler p has returned from a GetFile(f) that started after UploadFile
\* returned f, and no UpdateFile and no deletion has changed f
ReadOfUploaded(p) ==
  /\ Returned(p, "GetFile")
  /\ call[p].fileID \in call[p].seen.uploaded
  /\ call[p].fileID \notin hist.modified

\* C7: such a GetFile(f) returns a record (a failing metadata store aside)
\* that has the name, the size and the content type that were uploaded
C7_ReadReturnsUploaded ==
  \A p \in Procs :
    ReadOfUploaded(p) =>
      /\ res[p].err = "" \/ <<"repo.GetFileByID", FALSE>> \in log[p]
      /\ res[p].err = "" =>
           LET file == res[p].files[1]
               up == hist.uploaded[call[p].fileID] IN
           /\ Len(res[p].files) = 1
           /\ file.ID = call[p].fileID
           /\ file.Name = up.name
           /\ file.Size = up.size
           /\ file.ContentType = up.contentType

\* a GetFile of an unchanged uploaded file answered from the cache entry
\* UploadFile wrote
C7_Witness ==
  \E p \in Procs :
    /\ ReadOfUploaded(p)
    /\ log[p] = {<<"cache.GetFile", TRUE>>}
    /\ res[p].err = ""
    /\ res[p].files[1].Size = hist.uploaded[call[p].fileID].size

\* C8: once the blob delete of a DeleteFile has failed, DeleteFile returns
\* that error and calls neither the metadata delete nor the cache
C8_FailedBlobDeleteAborts ==
  \A p \in Procs :
    (call[p].op = "DeleteFile" /\ <<"storage.Delete", FALSE>> \in log[p]) =>
      /\ pc[p] = "idle"
      /\ res[p].err \in {"storage", "storage_not_exist"}
      /\ "repo.DeleteFile" \notin CallsOf(p)
      /\ CallsOf(p) \cap CacheCalls = {}

\* a DeleteFile has returned the error of its failed blob delete while the
\* row it had read is still in the metadata store
C8_Witness ==
  \E p \in Procs :
    /\ Returned(p, "DeleteFile")
    /\ <<"storage.Delete", FALSE>> \in log[p]
    /\ res[p].err = "storage"
    /\ call[p].fileID \in DOMAIN db

\* C9: DeleteFile never fails because the blob it is to delete is already
\* absent, with the local storage as with the remote one
C9_AbsentBlobIsSuccess ==
  \A p \in Procs : Returned(p, "DeleteFile") => res[p].err # "storage_not_exist"

\* C10: once the insert of an UploadFile has failed, UploadFile goes on to the
\* compensating blob delete only, returns the insert error whatever that
\* delete answers, calls no cache operation, and no row names the blob
C10_FailedInsertCompensates ==
  /\ \A p \in Procs :
       (call[p].op = "UploadFile" /\ <<"repo.CreateFile", FALSE>> \in log[p]) =>
         /\ pc[p] \in {"up_comp", "idle"}
         /\ CallsOf(p) \cap CacheCalls = {}
         /\ pc[p] = "idle" =>
              /\ res[p].err = "insert"
              /\ res[p].files = <<>>
              /\ "storage.Delete" \in CallsOf(p)
  /\ \A i \in DOMAIN db : db[i].storage_path \notin hist.insertFailed

\* an UploadFile has returned after its insert and its compensating blob
\* delete both failed
C10_Witness ==
  \E p \in Procs :
    /\ Returned(p, "UploadFile")
    /\ <<"repo.CreateFile", FALSE>> \in log[p]
    /\ <<"storage.Delete", FALSE>> \in log[p]
    /\ res[p].err = "insert"

\* C11: Stop does not return while a tick is in progress, and once it has
\* returned the run goroutine it stopped has ended and executes no tick
C11_StopWaitsForTick ==
  /\ ~wk.stoppedInTick
  /\ (wk.gen > 0 /\ wk.stoppedGen = wk.gen) => wk.run = "exited"

\* a Stop that was called while a tick was in progress has returned
C11_Witness ==
  /\ wk.waited /\ ~wk.stopping
  /\ wk.gen > 0 /\ wk.stoppedGen = wk.gen
  /\ sw.ran

\* C12: no Start and no Stop panics, whatever the sequence of calls
C12_NoCallPanics == ~wk.panicked

\* C13: a tick does not stay in a store call that never returns once the
\* deadline of the tick has expired
C13_TickEndsByDeadline == ~(wk.run = "hung" /\ now > wk.deadline)

\* C14: the count a tick returns without an error is the number of files
\* whose blob and whose row the tick deleted
C14_CountIsBothDeleted ==
  (sw.pc = "idle" /\ sw.ran /\ sw.err = "") =>
    sw.ret = Cardinality(sw.blobDeleted \cap sw.rowsDeleted)

\* what a returned GetSharedFile of p read: the link, and the instant of its
\* expiry check
LinkRead(p) == shares[call[p].arg[1]]
ReadAt(p) == call[p].arg[2]
ResolvedLink(p) ==
  /\ Returned(p, "GetSharedFile")
  /\ <<"repo.GetSharedFile", TRUE>> \in log[p]
  /\ call[p].fileID # EmptyID

\* C15: a link created with an expiry ("0s", a negative or a positive
\* duration) answers every GetSharedFile made after its expiry instant with
\* the expired error, whether or not the file still exists or is cached; a
\* read made no later than the expiry instant is never answered as expired,
\* and it returns the file unless the file is gone or a metadata call failed.
C15_LinkExpiresAtItsInstant ==
  \A p \in Procs :
    (ResolvedLink(p) /\ LinkRead(p) # NoLink
                     /\ LinkRead(p).expires_at # ZeroTime) =>
      IF ReadAt(p) > LinkRead(p).expires_at
      THEN res[p].err = "expired"
      ELSE /\ res[p].err # "expired"
           /\ \/ res[p].err = ""
              \/ call[p].fileID \notin DOMAIN db
              \/ <<"repo.GetFileByID", FALSE>> \in log[p]

\* a link with a positive duration whose file is still stored was read after
\* the duration had elapsed, and one with no duration left was read later
C15_Witness ==
  \E p \in Procs :
    /\ ResolvedLink(p)
    /\ LinkRead(p) # NoLink
    /\ LinkRead(p).expires_at > LinkRead(p).origin
    /\ ReadAt(p) > LinkRead(p).expires_at
    /\ call[p].fileID \in DOMAIN db
    /\ res[p].err = "expired"


\* the request of p that returned: its identity, the window it fell in, its
\* rank among the requests of that window, and whether the requests of the
\* identity up to it were clean
LimitId(p) == call[p].userID
LimitWindow(p) == call[p].arg[1][1]
LimitRank(p) == call[p].arg[1][2]
LastClean(p) ==
  /\ Returned(p, "Limit")
  /\ rl[LimitId(p)].clean
  /\ rl[LimitId(p)].w = LimitWindow(p)
  /\ rl[LimitId(p)].k = LimitRank(p)

\* C16: of the requests of one identity that are processed one at a time from
\* an empty window, the first MaxRequests are admitted and the next one
\* inside the window is denied with a Retry-After of at most WindowSeconds.
C16_FirstMAdmittedNextDenied ==
  \A p \in Procs :
    (LastClean(p) /\ LimitWindow(p) = 1) =>
      /\ LimitRank(p) <= MaxRequests => res[p] = Admitted
      /\ LimitRank(p) = MaxRequests + 1 =>
           /\ res[p].err = "rate_limited"
           /\ Atoi(res[p].retryAfter) <= WindowSeconds

\* the request after the first MaxRequests of the first window was denied
C16_Witness ==
  \E p \in Procs :
    /\ LastClean(p)
    /\ LimitWindow(p) = 1
    /\ LimitRank(p) = MaxRequests + 1
    /\ res[p].err = "rate_limited"

\* C17: the first request of an identity that arrives after WindowSeconds
\* have elapsed since the first request of its window is admitted, whatever
\* was admitted or denied inside that window.
C17_WindowIsFixed ==
  \A p \in Procs :
    (LastClean(p) /\ LimitRank(p) = 1) => res[p] = Admitted


\* the errors an operation returns on what it was asked, whatever its stores
\* answer
RuleErrors == {"forbidden", "expired", "invalid_duration"}

\* the call of p made a cache call that failed
CacheFailed(p) == \E e \in log[p] : e[1] \in CacheCalls /\ ~e[2]

\* C18: an error a lifecycle operation returns comes from a rule of the
\* operation or from the answer of the metadata store or the blob store (a
\* failed call, or no row for not-found), never from a failed cache call;
\* a read whose cache lookup failed is answered from the metadata store; the
\* sweep returns no error but that of the metadata store.
C18_CacheFailuresAbsorbed ==
  /\ \A p \in Procs :
       (pc[p] = "idle" /\ call[p].op # "none") =>
         /\ res[p].err # "" =>
              \/ res[p].err \in RuleErrors
              \/ \E e \in log[p] :
                   /\ e[1] \notin CacheCalls
                   /\ ~e[2] \/ res[p].err = "not_found"
         /\ ( /\ call[p].op = "GetFile"
              /\ <<"cache.GetFile", FALSE>> \in log[p]
              /\ res[p].err = "" ) => "repo.GetFileByID" \in CallsOf(p)
         /\ ( /\ call[p].op = "GetUserFiles"
              /\ <<"cache.GetUserFiles", FALSE>> \in log[p]
              /\ res[p].err = "" ) => "repo.GetFilesByUserID" \in CallsOf(p)
  /\ sw.err \in {"", "db"}

\* an operation whose cache call failed returned success
C18_Witness ==
  \E p \in Procs :
    /\ pc[p] = "idle"
    /\ call[p].op \in {"GetFile", "DeleteFile", "UploadFile"}
    /\ CacheFailed(p)
    /\ res[p].err = ""


\* C19: at most one goroutine accesses the map of the MemoryCache at a time,
\* and no access ends the process or loses its write.
C19_MapAccessSerialised ==
  /\ Cardinality({g \in Goroutines : mc.acc[g] # Outside}) <= 1
  /\ ~mc.fatal
  /\ ~mc.lost


\* C20: a GetUserFiles call with a non-zero offset or a limit other than the
\* default page size neither reads nor writes the user_files entry of the
\* cache.
C20_OnlyFirstPageUsesCache ==
  \A p \in Procs :
    ( /\ call[p].op = "GetUserFiles"
      /\ call[p].offset # 0 \/ call[p].limit # DefaultLimit ) =>
      CallsOf(p) \cap {"cache.GetUserFiles", "cache.SetUserFiles"} = {}


\* a first-page listing of p that has returned with every store call it made
\* answered, no direct change having been made since it started; it was
\* answered from the cache when the cache lookup is the only call it made
FirstPageDone(p) ==
  /\ Returned(p, "GetUserFiles")
  /\ call[p].offset = 0
  /\ \A e \in log[p] : e[2]
  /\ call[p].seen.direct = hist.direct
AnsweredFromCache(p) == CallsOf(p) = {"cache.GetUserFiles"}
ShowsChange(files, n) == \E i \in DOMAIN files : files[i].Name = DirectNames[n]

C22_AbsentAndExpiredAlike ==
  \A g \in Goroutines : mc.got[g] \in {"none", "", "key not found in cache"}


\* a ShareFile call of p that has returned, and whether its duration string
\* is unparsable (no string asks for no expiry and is not parsed)
Unparsable(in) == in # "" /\ ~ParseDuration(in).ok
SharedBy(p) == Returned(p, "ShareFile")

\* a step that adds a row to shared_files
LinkCreated == Len(shares') > Len(shares)

C24_OneErrorForEveryFailure ==
  \A p \in Procs :
    ( /\ Returned(p, "GetSharedFile")
      /\ res[p].err # ""
      /\ \A e \in log[p] : e[2] ) => res[p].err = "not_found"

\* a DeleteFile of p that has returned, its read of the row answered, the
\* row not being there when it was read
DeletedAbsent(p) ==
  /\ Returned(p, "DeleteFile")
  /\ <<"repo.GetFileByID", TRUE>> \in log[p]
  /\ call[p].arg = <<FALSE>>

\* C25: a DeleteFile of an id that has no row, never stored or already
\* deleted, returns not-found after its read of the row and calls neither
\* the blob store, nor the cache, nor the metadata store again.
C25_DeleteOfAbsentIsNotFound ==
  \A p \in Procs :
    DeletedAbsent(p) =>
      /\ res[p].err = "not_found"
      /\ CallsOf(p) = {"repo.GetFileByID"}

\* a second DeleteFile of a file that a DeleteFile had deleted
C25_Witness ==
  \E p \in Procs :
    /\ DeletedAbsent(p)
    /\ call[p].fileID \in hist.deletedOK
    /\ res[p].err = "not_found"


\* the uploads whose Upload has returned a key that no row holds yet
Holding == {p \in Procs : pc[p] \in {"up_create", "up_comp"}}
KeyHeld(p) == loc[p][1].StoragePath
KeysGiven == {hist.keyOf[i] : i \in DOMAIN hist.keyOf}

\* C26: the storage keys that Upload has returned are pairwise distinct,
\* those of files whose blob has been deleted included.
C26_StorageKeysNeverRepeat ==
  /\ \A i, j \in DOMAIN hist.keyOf : i # j => hist.keyOf[i] # hist.keyOf[j]
  /\ \A p \in Holding :
       /\ KeyHeld(p) \notin KeysGiven
       /\ \A q \in Holding \ {p} : KeyHeld(q) # KeyHeld(p)

\* two uploads were given keys, the blob and the row of the first being gone
C26_Witness ==
  /\ Cardinality(DOMAIN hist.keyOf) = 2
  /\ 1 \notin DOMAIN db
  /\ hist.keyOf[1] \notin blobs
  /\ hist.keyOf[2] \in blobs


\* C27: once a tick of the sweep has completed without an error, no file
\* whose row it removed has a live file entry in the cache.
C27_SweptFilesLeaveNoCacheEntry ==
  (sw.pc = "idle" /\ sw.ran /\ sw.err = "") =>
    \A f \in sw.rowsDeleted : ~CacheHit(cache, FileKey(f), now)


\* every handler has returned and no store call has failed
AtRest == (\A p \in Procs : pc[p] = "idle") /\ faults = DeleteFaults

\* the live cache entry of file f is the row the metadata store holds
FileEntryCurrent(f) ==
  CacheHit(cache, FileKey(f), now) =>
    /\ f \in DOMAIN db
    /\ cache[FileKey(f)].value = MarshalFile(ScanFile(f, db[f]))

\* the live listing entry of user u is a first page of the rows the metadata
\* store holds
ListingEntryCurrent(u) ==
  CacheHit(cache, UserFilesKey(u), now) =>
    \E page \in PageRequests :
      cache[UserFilesKey(u)].value =
        MarshalFiles(GetFilesByUserID(db, u, EffectiveLimit(page[1]), 0))

\* C28: once concurrent reads, updates and deletions of a file have all
\* returned, every entry still cached under file:{f} or user_files:{u} is
\* the current content of the metadata store.
C28_NoStaleEntryAtRest ==
  AtRest => /\ \A f \in FileIds : FileEntryCurrent(f)
            /\ \A u \in Users : ListingEntryCurrent(u)


\* C29: under every interleaving of the requests of one identity, the count
\* stored under its counter key never exceeds the number of requests the
\* limiter has let through since the key was last absent.
C29_CountNeverAboveAdmitted ==
  \A id \in Users :
    CacheHit(cache, LimitKey(id), now) =>
      Atoi(cache[LimitKey(id)].value) <= rl[id].adm


\* the step in which handler p is called with an UpdateFile or a DeleteFile
\* of a stored file by a user who does not own it, the metadata store
\* answering the read of the row (the call is p's: it changes what p holds,
\* or no other handler is idle to take a call)
NonOwnerCalls(p) ==
  /\ pc[p] = "idle"
  /\ ops' = ops - 1
  /\ \/ call'[p] # call[p] \/ res'[p] # res[p] \/ log'[p] # log[p]
     \/ \A q \in Procs \ {p} : pc[q] # "idle"
  /\ call'[p].op \in {"UpdateFile", "DeleteFile"}
  /\ log'[p] = {<<"repo.GetFileByID", TRUE>>}
  /\ call'[p].fileID \in DOMAIN db
  /\ db[call'[p].fileID].user_id # call'[p].userID

\* handler p has returned the authorization error of UpdateFile or DeleteFile
Refused(p) ==
  /\ Returned(p, "UpdateFile") \/ Returned(p, "DeleteFile")
  /\ res[p].err = "forbidden"

\* C30: an UpdateFile or a DeleteFile by a user who does not own the file
\* returns the authorization error in the step that read the row, and that
\* step leaves the metadata store, the blob store and the cache as they
\* were; a refused call has made no store call but the read of the row.
C30_NonOwnerChangesNothing ==
  /\ [](\A p \in Procs : Refused(p) => CallsOf(p) = {"repo.GetFileByID"})
  /\ [][\A p \in Procs :
          NonOwnerCalls(p) =>
            /\ pc'[p] = "idle"
            /\ res'[p] = Err("forbidden")
            /\ db' = db /\ blobs' = blobs /\ cache' = cache]_vars

\* a non-owner's UpdateFile and a non-owner's DeleteFile of a file that is
\* stored and cached have both been refused
C30_Witness ==
  \E p, q \in Procs, f \in DOMAIN db :
    /\ Refused(p) /\ call[p].op = "UpdateFile" /\ call[p].fileID = f
    /\ Refused(q) /\ call[q].op = "DeleteFile" /\ call[q].fileID = f
    /\ db[f].user_id \notin {call[p].userID, call[q].userID}
    /\ f \in DOMAIN hist.keyOf /\ hist.keyOf[f] \in blobs
    /\ CacheHit(cache, FileKey(f), now)


\* the access of goroutine g to the map ends in this step
AccessEnds(g) == mc.acc[g] # Outside /\ mc'.acc[g] = Outside

\* the entry of key k is in the map d and time t is after its expiration
EntryExpired(d, k, t) == k \in DOMAIN d /\ t > d[k].expiration

\* C31: a Get of the MemoryCache answers no value for an entry that its
\* clock reading is after and leaves the map without that entry, and the
\* periodic cleanup removes no entry that its clock reading is not after.
C31_ExpiredNeverServedAndEvicted ==
  [][\A g \in Goroutines :
       AccessEnds(g) =>
         LET a == mc.acc[g] IN
         /\ (a.op = "get" /\ EntryExpired(mc.data, a.key, a.expiration)) =>
              /\ mc'.got[g] # ""
              /\ a.key \notin DOMAIN mc'.data
         /\ a.op = "cleanup" =>
              (DOMAIN mc.data \ DOMAIN mc'.data)
                 \subseteq ExpiredKeys(mc.data, a.expiration)]_vars


\* the step in which handler p takes a request to the limiter (the call is
\* p's: it changes what p holds, or no other handler is idle to take it)
LimitCalled(p) ==
  /\ pc[p] = "idle"
  /\ ops' = ops - 1
  /\ call'[p].op = "Limit"
  /\ \/ pc'[p] # pc[p] \/ call'[p] # call[p] \/ res'[p] # res[p]
     \/ log'[p] # log[p]
     \/ \A q \in Procs \ {p} : pc[q] # "idle"

\* the limiter reads a counter for id: the key is live and the cache answers
CounterRead(p, id) ==
  CacheHit(cache, LimitKey(id), now) /\ <<"cache.Get", TRUE>> \in log'[p]

\* C32: a request whose counter the limiter cannot read (key absent or
\* expired, or the cache Get fails) passes the limit check, every request
\* that passes the check is admitted whatever the cache Set answers, and so
\* no request is refused after a failed cache call.
C32_LimiterFailsOpen ==
  /\ [](\A p \in Procs :
          (Returned(p, "Limit") /\ \E e \in log[p] : ~e[2]) => res[p] = Admitted)
  /\ [][\A p \in Procs :
          /\ (LimitCalled(p) /\ ~CounterRead(p, call'[p].userID))
               => pc'[p] = "rl_set"
          /\ (pc[p] = "rl_set" /\ pc'[p] = "idle") => res'[p] = Admitted]_vars

\* a request that is not the first of its window has been admitted although
\* the cache Get of its counter failed
C32_Witness ==
  \E p \in Procs :
    /\ Returned(p, "Limit")
    /\ <<"cache.Get", FALSE>> \in log[p]
    /\ res[p] = Admitted
    /\ rl[call[p].userID].k >= 2


\* C33: a tick of the sweep that has ended without an error has removed the
\* row of no file that its GetExpiredFiles did not return.
C33_RemovesOnlyFetchedRows ==
  (sw.pc = "idle" /\ sw.ran /\ sw.err = "") => sw.rowsDeleted \subseteq sw.fetched


\* C34: the interval main gives the worker is the exact product of CacheTTL
\* and time.Second, and the ticker of the worker starts with it.
C34_IntervalIsExactProduct ==
  wk.stage \in {"made", "ticking"} =>
    /\ Widen(wk.interval) = TimesSecond(Widen(wk.cacheTTL))
    /\ ~wk.panicked


\* the Stop call of main has returned
StopReturned == StopCalled /\ ~wk.stopping /\ ~wk.panicked

\* C35: once the Stop call of main has returned, no run goroutine of the
\* worker is in its loop, however the Start goroutine was scheduled.
C35_NoLoopAfterStop ==
  StopReturned => wk.run \in {"none", "exited"}


\* handlers p and q have both returned from a DeleteFile of file f
BothDeleted(p, q, f) ==
  /\ p # q
  /\ Returned(p, "DeleteFile") /\ call[p].fileID = f
  /\ Returned(q, "DeleteFile") /\ call[q].fileID = f

\* C36: of two DeleteFile calls for the same file that have both returned,
\* at most one has returned success, and when one has, the blob and the
\* metadata row of the file are gone.
C36_OneDeleteWins ==
  \A p, q \in Procs : \A f \in TargetIds :
    BothDeleted(p, q, f) =>
      /\ ~(res[p].err = "" /\ res[q].err = "")
      /\ res[p].err = "" =>
           /\ f \notin DOMAIN db
           /\ f \in DOMAIN hist.keyOf => hist.keyOf[f] \notin blobs

\* two DeleteFile calls of the owner overlapped: both read the row while it
\* was there, one returned success and the other failed past its read
C36_Witness ==
  \E p, q \in Procs : \E f \in TargetIds :
    /\ BothDeleted(p, q, f)
    /\ call[p].arg = <<TRUE>> /\ call[q].arg = <<TRUE>>
    /\ call[p].userID = call[q].userID
    /\ res[p].err = ""
    /\ res[q].err \in {"storage_not_exist", "not_found"}
    /\ \E e \in log[q] : e[1] \in {"storage.Delete", "repo.DeleteFile"}


\* handlers p and q have made the only two calls so far, UpdateFile calls of
\* file f that have both returned success, p's changing the name only and
\* q's the expiry only
BothUpdated(p, q, f) ==
  /\ p # q
  /\ ops = ListOps - 2
  /\ Returned(p, "UpdateFile") /\ call[p].fileID = f /\ res[p].err = ""
  /\ Returned(q, "UpdateFile") /\ call[q].fileID = f /\ res[q].err = ""
  /\ call[p].arg.name # <<>> /\ call[p].arg.expires_in = <<>>
  /\ call[q].arg.name = <<>> /\ SetsExpiry(call[q].arg)

\* C37: after two UpdateFile calls of the owner that change different
\* fields of a file have both returned success, the stored row carries the
\* new name and the new expiry.
C37_BothUpdatesTakeEffect ==
  \A p, q \in Procs : \A f \in DOMAIN db :
    BothUpdated(p, q, f) =>
      /\ db[f].name = call[p].arg.name[1]
      /\ db[f].expires_at =
           <<now + ParseDuration(call[q].arg.expires_in[1]).d>>


\* C38: when Upload of the local storage returns a key, the file it has
\* written is at basePath joined with that key.
C38_ReturnedKeyNamesWrittenFile ==
  [][\A p \in Procs :
       (pc[p] = "lu_create" /\ pc'[p] = "idle" /\ res'[p].err = "")
         => res'[p].files[1] \in blobs']_vars


\* handler p has returned a SearchFiles response that was served from the
\* cache, no file having been written since the process started
ServedFromCache(p) ==
  /\ Returned(p, "SearchFiles")
  /\ res[p].err = ""
  /\ log[p] = {<<"redis.Get", TRUE>>}
  /\ hist.modified = {}

\* C39: a SearchFiles response served from the cache lists the files the
\* database query returns for the request's own filters, limit and offset.
C39_CachedPageIsOwnPage ==
  \A p \in Procs :
    ServedFromCache(p) =>
      res[p].files = SearchQuery(db, call[p].userID, call[p].arg,
                                 call[p].limit, call[p].offset)


\* the records the cleanup job has not taken the file of
Untouched == DOMAIN db \ (sw.blobDeleted \cup sw.blobFailed)

\* C40: two records of successful uploads never have the same storage path,
\* and a record whose own file the cleanup job has not removed still has its
\* file.
C40_UploadsNeverSharePath ==
  /\ \A f, g \in DOMAIN db : f # g => db[f].url # db[g].url
  /\ \A f \in Untouched : db[f].url \in blobs

============================================================================
